---- MODULE Spec2Model ----
(***************************************************************************)
(* lsl-viewpoint: the ViewPoint event callback (callback.py), the Device   *)
(* State it fills (device.py) and the LSL outlet it pushes to.             *)
(*                                                                         *)
(* Values held by Device State are kept symbolic: a value records which    *)
(* accessor produced it, with which eye selector, and from which frame of  *)
(* the driver.  The frame number doubles as the device time (in ticks) at  *)
(* which the frame was stored, so the store-time registers are numeric.    *)
(***************************************************************************)
EXTENDS Integers, Sequences, FiniteSets, TLC

\* ---- bounds of the explored input space --------------------------------
MaxFrame == 2
MaxTime == 2
MaxPush == 2
MaxBufsize == 2

\* ---- constants of device.py --------------------------------------------
EYE_A == 0
EYE_B == 1
SCENE_A == 2
VPX_STATUS_ViewPointIsRunning == 1
VPX_DAT_FRESH == 2

\* Binocular accessors take no eye argument; NoEye stands for its absence.
NoEye == -1
\* Marks a clock that was not read and a callback that did not return.
Nil == -2

\* The session: Device State, the outlet, the record of the most recent
\* invocation of the callback, Device State at the most recent push, and the
\* driver's frame and clock.
VARIABLES DEVICE, OUTLET, inv, snap, vpx

\* setup: the execution of the module body of callback.py (stream setup).
\* help:  the most recent direct call of a dispatch helper.
\* buf:   a Buffer (buffer.py).
\* cfg:   the configuration file and the most recent call of config.py.
VARIABLES setup, help, buf, cfg

\* thr:   the invocations of the callback that are in flight on two threads
\*        of the driver, when the driver does not serialize them.
\* info:  a StreamInfo (lsl.py) and the most recent call of its accessors.
VARIABLES thr, info

vars == <<DEVICE, OUTLET, inv, snap, vpx, setup, help, buf, cfg, thr, info>>

\* What the driver and the callback leave alone.
outsideSession == <<setup, help, buf, cfg, thr, info>>

\* ---- Device State (ViewPointDevice.__init__) ---------------------------
PointVars ==
  {"gaze_point", "gaze_point_smoothed", "gaze_point_corrected",
   "gaze_angle", "gaze_angle_smoothed", "gaze_angle_corrected",
   "component_velocity", "pupil_size", "pupil_point", "pupil_centroid",
   "diff_vector", "glint_point", "glint_centroid"}

RectVars == {"pupil_oval_rect"}

ScalarVars ==
  {"total_velocity", "pupil_aspect_ratio", "pupil_angle", "pupil_diameter",
   "data_quality", "data_time", "data_delta_time", "store_time",
   "store_delta_time"}

Slots ==
  ((PointVars \cup RectVars \cup ScalarVars) \X {"A", "B"})
    \cup {<<"gaze_point_binocular", "AB">>, <<"velocity_binocular", "AB">>}

\* The sentinel a slot holds until its first update: 1.0 for the fields of
\* points and rectangles, 0.0 (0 for the quality code) for scalars.
Sentinel(slot) ==
  [acc |-> "init", eye |-> NoEye, frame |-> 0,
   num |-> IF slot[1] \in PointVars \cup RectVars \cup {"gaze_point_binocular"}
           THEN 1 ELSE 0]

ViewPointDevice == [s \in Slots |-> Sentinel(s)]

\* ---- the accessors bound from the DLL ----------------------------------
\* What accessor acc, called with eye selector sel, stores through its out
\* pointer while the driver holds frame f.  The store time of frame f is f.
Register(acc, sel, f) == [acc |-> acc, eye |-> sel, frame |-> f, num |-> f]

\* VPX_GetPrecisionDeltaTime(None, 0): the device precision timer.
VPX_GetPrecisionDeltaTime(t) ==
  [acc |-> "VPX_GetPrecisionDeltaTime", eye |-> NoEye, frame |-> 0, num |-> t]

\* ---- dispatch helpers --------------------------------------------------
\* A helper either raises or makes one accessor call acc(sel, slot).
Call(acc, sel, slot) ==
  [err |-> "none", acc |-> acc, sel |-> sel, slot |-> slot, arg |-> ""]

Raise(kind, arg) ==
  [err |-> kind, acc |-> "", sel |-> NoEye, slot |-> <<"", "">>, arg |-> arg]

eye_idx(eye) == IF eye = "A" THEN EYE_A ELSE EYE_B

\* A gaze-point helper that looks the processing flag up before it looks at
\* the eye.
get_gaze_point_Validating(eye, processing) ==
  IF eye \notin {"A", "B", "AB"} THEN Raise("AssertionError", eye)
  ELSE IF processing \notin {"raw", "smoothed", "corrected"}
    THEN Raise("ValueError", processing)
  ELSE IF eye = "AB"
    THEN Call("vpx_get_gaze_binocular", NoEye, <<"gaze_point_binocular", "AB">>)
  ELSE Call(IF processing = "raw" THEN "vpx_get_gaze_point"
            ELSE "vpx_get_gaze_point_" \o processing,
            eye_idx(eye),
            <<IF processing = "raw" THEN "gaze_point"
              ELSE "gaze_point_" \o processing, eye>>)

get_gaze_point(eye, processing) ==
  LET accessors_variables ==
        [raw |-> <<"vpx_get_gaze_point", "gaze_point">>,
         smoothed |-> <<"vpx_get_gaze_point_smoothed", "gaze_point_smoothed">>,
         corrected |-> <<"vpx_get_gaze_point_corrected", "gaze_point_corrected">>]
  IN IF eye \notin {"A", "B", "AB"} THEN Raise("AssertionError", eye)
     ELSE IF eye = "AB"
       THEN Call("vpx_get_gaze_binocular", NoEye, <<"gaze_point_binocular", "AB">>)
     ELSE IF processing \notin DOMAIN accessors_variables
       THEN Raise("ValueError", processing)
     ELSE Call(accessors_variables[processing][1], eye_idx(eye),
               <<accessors_variables[processing][2], eye>>)

\* A gaze-angle helper whose table is that of the gaze point.
get_gaze_angle_AsPoint(eye, processing) == get_gaze_point(eye, processing)

get_gaze_angle(eye, processing) ==
  LET accessors_variables ==
        [raw |-> <<"vpx_get_gaze_angle", "gaze_angle">>,
         smoothed |-> <<"vpx_get_gaze_angle_smoothed", "gaze_angle_smoothed">>,
         corrected |-> <<"vpx_get_gaze_angle_corrected", "gaze_angle_corrected">>]
  IN IF eye \notin {"A", "B"} THEN Raise("AssertionError", eye)
     ELSE IF processing \notin DOMAIN accessors_variables
       THEN Raise("ValueError", processing)
     ELSE Call(accessors_variables[processing][1], eye_idx(eye),
               <<accessors_variables[processing][2], eye>>)

\* A velocity helper that falls back on the total velocity for a property
\* name its table does not hold.
get_gaze_velocity_Default(eye, property_name) ==
  IF eye \notin {"A", "B", "AB"} THEN Raise("AssertionError", eye)
  ELSE IF eye = "AB"
    THEN Call("vpx_get_velocity_binocular", NoEye, <<"velocity_binocular", "AB">>)
  ELSE IF property_name = "component"
    THEN Call("vpx_get_component_velocity", eye_idx(eye),
              <<"component_velocity", eye>>)
  ELSE Call("vpx_get_total_velocity", eye_idx(eye), <<"total_velocity", eye>>)

get_gaze_velocity(eye, property_name) ==
  LET accessors_variables ==
        [total |-> <<"vpx_get_total_velocity", "total_velocity">>,
         component |-> <<"vpx_get_component_velocity", "component_velocity">>]
  IN IF eye \notin {"A", "B", "AB"} THEN Raise("AssertionError", eye)
     ELSE IF eye = "AB"
       THEN Call("vpx_get_velocity_binocular", NoEye, <<"velocity_binocular", "AB">>)
     ELSE IF property_name \notin DOMAIN accessors_variables
       THEN Raise("ValueError", property_name)
     ELSE Call(accessors_variables[property_name][1], eye_idx(eye),
               <<accessors_variables[property_name][2], eye>>)

get_pupil_property(eye, property_name) ==
  LET accessors_variables ==
        [size |-> <<"vpx_get_pupil_size", "pupil_size">>,
         aspect_ratio |-> <<"vpx_get_pupil_aspect_ratio", "pupil_aspect_ratio">>,
         oval_rect |-> <<"vpx_get_pupil_oval_rect", "pupil_oval_rect">>,
         angle |-> <<"vpx_get_pupil_angle", "pupil_angle">>,
         diameter |-> <<"vpx_get_pupil_diameter", "pupil_diameter">>,
         point |-> <<"vpx_get_pupil_point", "pupil_point">>,
         centroid |-> <<"vpx_get_pupil_centroid", "pupil_centroid">>]
  IN IF eye \notin {"A", "B"} THEN Raise("AssertionError", eye)
     ELSE IF property_name \notin DOMAIN accessors_variables
       THEN Raise("ValueError", property_name)
     ELSE Call(accessors_variables[property_name][1], eye_idx(eye),
               <<accessors_variables[property_name][2], eye>>)

\* ---- channel names -----------------------------------------------------
CH_NAMES ==
  <<
    "gaze_point_raw_A_x", "gaze_point_raw_A_y", "gaze_point_raw_B_x",
    "gaze_point_raw_B_y", "gaze_angle_raw_A_x", "gaze_angle_raw_A_y",
    "gaze_angle_raw_B_x", "gaze_angle_raw_B_y", "gaze_point_smoothed_A_x",
    "gaze_point_smoothed_A_y", "gaze_point_smoothed_B_x", "gaze_point_smoothed_B_y",
    "gaze_angle_smoothed_A_x", "gaze_angle_smoothed_A_y", "gaze_angle_smoothed_B_x",
    "gaze_angle_smoothed_B_y", "gaze_point_corrected_A_x", "gaze_point_corrected_A_y",
    "gaze_point_corrected_B_x", "gaze_point_corrected_B_y", "gaze_angle_corrected_A_x",
    "gaze_angle_corrected_A_y", "gaze_angle_corrected_B_x", "gaze_angle_corrected_B_y",
    "gaze_point_binocular_x", "gaze_point_binocular_y", "total_velocity_A",
    "total_velocity_B", "component_velocity_A_x", "component_velocity_A_y",
    "component_velocity_B_x", "component_velocity_B_y", "velocity_binocular",
    "pupil_size_A_x", "pupil_size_A_y", "pupil_size_B_x",
    "pupil_size_B_y", "pupil_aspect_ratio_A", "pupil_aspect_ratio_B",
    "pupil_angle_A", "pupil_angle_B", "pupil_diameter_A",
    "pupil_diameter_B", "pupil_point_A_x", "pupil_point_A_y",
    "pupil_point_B_x", "pupil_point_B_y", "pupil_centroid_A_x",
    "pupil_centroid_A_y", "pupil_centroid_B_x", "pupil_centroid_B_y",
    "diff_vector_A_x", "diff_vector_A_y", "diff_vector_B_x",
    "diff_vector_B_y", "glint_point_A_x", "glint_point_A_y",
    "glint_point_B_x", "glint_point_B_y", "glint_centroid_A_x",
    "glint_centroid_A_y", "glint_centroid_B_x", "glint_centroid_B_y",
    "data_quality_A", "data_quality_B", "data_time_A",
    "data_time_B", "data_delta_time_A", "data_delta_time_B",
    "store_time_A", "store_time_B", "store_delta_time_A",
    "store_delta_time_B", "current_time"
  >>


\* ---- the collect phase of callback: its statements, in order -----------
GazeCalls ==
  <<
    get_gaze_point("A", "raw"), get_gaze_point("B", "raw"),
    get_gaze_angle("A", "raw"), get_gaze_angle("B", "raw"),
    get_gaze_point("A", "smoothed"), get_gaze_point("B", "smoothed"),
    get_gaze_angle("A", "smoothed"), get_gaze_angle("B", "smoothed"),
    get_gaze_point("A", "corrected"), get_gaze_point("B", "corrected"),
    get_gaze_angle("A", "corrected"), get_gaze_angle("B", "corrected"),
    get_gaze_point("AB", "None")
  >>

VelocityCalls ==
  <<
    get_gaze_velocity("A", "total"), get_gaze_velocity("B", "total"),
    get_gaze_velocity("A", "component"), get_gaze_velocity("B", "component"),
    get_gaze_velocity("AB", "")
  >>

PupilCalls ==
  <<
    get_pupil_property("A", "size"), get_pupil_property("B", "size"),
    get_pupil_property("A", "aspect_ratio"), get_pupil_property("B", "aspect_ratio"),
    get_pupil_property("A", "angle"), get_pupil_property("B", "angle"),
    get_pupil_property("A", "diameter"), get_pupil_property("B", "diameter"),
    get_pupil_property("A", "point"), get_pupil_property("B", "point"),
    get_pupil_property("A", "centroid"), get_pupil_property("B", "centroid")
  >>

GlintCalls ==
  <<
    Call("vpx_get_diff_vector", EYE_A, <<"diff_vector", "A">>),
    Call("vpx_get_diff_vector", EYE_B, <<"diff_vector", "B">>),
    Call("vpx_get_glint_point", EYE_A, <<"glint_point", "A">>),
    Call("vpx_get_glint_point", EYE_B, <<"glint_point", "B">>),
    Call("vpx_get_glint_centroid", EYE_A, <<"glint_centroid", "A">>),
    Call("vpx_get_glint_centroid", EYE_B, <<"glint_centroid", "B">>)
  >>

\* The data quality of eye A alone: the call for eye B left out.
QualityCalls_OnlyA ==
  <<
    Call("vpx_get_data_quality", EYE_A, <<"data_quality", "A">>)
  >>

QualityCalls ==
  <<
    Call("vpx_get_data_quality", EYE_A, <<"data_quality", "A">>),
    Call("vpx_get_data_quality", EYE_B, <<"data_quality", "B">>)
  >>

TimestampCalls ==
  <<
    Call("vpx_get_data_time", EYE_A, <<"data_time", "A">>),
    Call("vpx_get_data_time", EYE_B, <<"data_time", "B">>),
    Call("vpx_get_data_delta_time", EYE_A, <<"data_delta_time", "A">>),
    Call("vpx_get_data_delta_time", EYE_B, <<"data_delta_time", "B">>),
    Call("vpx_get_store_time", EYE_A, <<"store_time", "A">>),
    Call("vpx_get_store_time", EYE_A, <<"store_time", "B">>),
    Call("vpx_get_store_delta_time", EYE_A, <<"store_delta_time", "A">>),
    Call("vpx_get_store_delta_time", EYE_B, <<"store_delta_time", "B">>)
  >>

\* A collect phase that leaves out the calls made with the selector of eye B.
CALLS_OnlyA ==
  SelectSeq(GazeCalls \o VelocityCalls \o PupilCalls \o GlintCalls
              \o QualityCalls \o TimestampCalls,
            LAMBDA c : c.sel # EYE_B)

CALLS ==
  GazeCalls \o VelocityCalls \o PupilCalls \o GlintCalls \o QualityCalls
    \o TimestampCalls

NCalls == Len(CALLS)

\* ---- sample assembly: the operands of np.array, in order --------------
DATA ==
  <<
    [src |-> "DEVICE", var |-> "gaze_point", key |-> "A", comp |-> "x"],
    [src |-> "DEVICE", var |-> "gaze_point", key |-> "A", comp |-> "y"],
    [src |-> "DEVICE", var |-> "gaze_point", key |-> "B", comp |-> "x"],
    [src |-> "DEVICE", var |-> "gaze_point", key |-> "B", comp |-> "y"],
    [src |-> "DEVICE", var |-> "gaze_angle", key |-> "A", comp |-> "x"],
    [src |-> "DEVICE", var |-> "gaze_angle", key |-> "A", comp |-> "y"],
    [src |-> "DEVICE", var |-> "gaze_angle", key |-> "B", comp |-> "x"],
    [src |-> "DEVICE", var |-> "gaze_angle", key |-> "B", comp |-> "y"],
    [src |-> "DEVICE", var |-> "gaze_point_smoothed", key |-> "A", comp |-> "x"],
    [src |-> "DEVICE", var |-> "gaze_point_smoothed", key |-> "A", comp |-> "y"],
    [src |-> "DEVICE", var |-> "gaze_point_smoothed", key |-> "B", comp |-> "x"],
    [src |-> "DEVICE", var |-> "gaze_point_smoothed", key |-> "B", comp |-> "y"],
    [src |-> "DEVICE", var |-> "gaze_angle_smoothed", key |-> "A", comp |-> "x"],
    [src |-> "DEVICE", var |-> "gaze_angle_smoothed", key |-> "A", comp |-> "y"],
    [src |-> "DEVICE", var |-> "gaze_angle_smoothed", key |-> "B", comp |-> "x"],
    [src |-> "DEVICE", var |-> "gaze_angle_smoothed", key |-> "B", comp |-> "y"],
    [src |-> "DEVICE", var |-> "gaze_point_corrected", key |-> "A", comp |-> "x"],
    [src |-> "DEVICE", var |-> "gaze_point_corrected", key |-> "A", comp |-> "y"],
    [src |-> "DEVICE", var |-> "gaze_point_corrected", key |-> "B", comp |-> "x"],
    [src |-> "DEVICE", var |-> "gaze_point_corrected", key |-> "B", comp |-> "y"],
    [src |-> "DEVICE", var |-> "gaze_angle_corrected", key |-> "A", comp |-> "x"],
    [src |-> "DEVICE", var |-> "gaze_angle_corrected", key |-> "A", comp |-> "y"],
    [src |-> "DEVICE", var |-> "gaze_angle_corrected", key |-> "B", comp |-> "x"],
    [src |-> "DEVICE", var |-> "gaze_angle_corrected", key |-> "B", comp |-> "y"],
    [src |-> "DEVICE", var |-> "gaze_point_binocular", key |-> "AB", comp |-> "x"],
    [src |-> "DEVICE", var |-> "gaze_point_binocular", key |-> "AB", comp |-> "y"],
    [src |-> "DEVICE", var |-> "total_velocity", key |-> "A", comp |-> "value"],
    [src |-> "DEVICE", var |-> "total_velocity", key |-> "B", comp |-> "value"],
    [src |-> "DEVICE", var |-> "component_velocity", key |-> "A", comp |-> "x"],
    [src |-> "DEVICE", var |-> "component_velocity", key |-> "A", comp |-> "y"],
    [src |-> "DEVICE", var |-> "component_velocity", key |-> "B", comp |-> "x"],
    [src |-> "DEVICE", var |-> "component_velocity", key |-> "B", comp |-> "y"],
    [src |-> "DEVICE", var |-> "velocity_binocular", key |-> "AB", comp |-> "value"],
    [src |-> "DEVICE", var |-> "pupil_size", key |-> "A", comp |-> "x"],
    [src |-> "DEVICE", var |-> "pupil_size", key |-> "A", comp |-> "y"],
    [src |-> "DEVICE", var |-> "pupil_size", key |-> "B", comp |-> "x"],
    [src |-> "DEVICE", var |-> "pupil_size", key |-> "B", comp |-> "y"],
    [src |-> "DEVICE", var |-> "pupil_aspect_ratio", key |-> "A", comp |-> "value"],
    [src |-> "DEVICE", var |-> "pupil_aspect_ratio", key |-> "B", comp |-> "value"],
    [src |-> "DEVICE", var |-> "pupil_angle", key |-> "A", comp |-> "value"],
    [src |-> "DEVICE", var |-> "pupil_angle", key |-> "B", comp |-> "value"],
    [src |-> "DEVICE", var |-> "pupil_diameter", key |-> "A", comp |-> "value"],
    [src |-> "DEVICE", var |-> "pupil_diameter", key |-> "B", comp |-> "value"],
    [src |-> "DEVICE", var |-> "pupil_point", key |-> "A", comp |-> "x"],
    [src |-> "DEVICE", var |-> "pupil_point", key |-> "A", comp |-> "y"],
    [src |-> "DEVICE", var |-> "pupil_point", key |-> "B", comp |-> "x"],
    [src |-> "DEVICE", var |-> "pupil_point", key |-> "B", comp |-> "y"],
    [src |-> "DEVICE", var |-> "pupil_centroid", key |-> "A", comp |-> "x"],
    [src |-> "DEVICE", var |-> "pupil_centroid", key |-> "A", comp |-> "y"],
    [src |-> "DEVICE", var |-> "pupil_centroid", key |-> "B", comp |-> "x"],
    [src |-> "DEVICE", var |-> "pupil_centroid", key |-> "B", comp |-> "y"],
    [src |-> "DEVICE", var |-> "diff_vector", key |-> "A", comp |-> "x"],
    [src |-> "DEVICE", var |-> "diff_vector", key |-> "A", comp |-> "y"],
    [src |-> "DEVICE", var |-> "diff_vector", key |-> "B", comp |-> "x"],
    [src |-> "DEVICE", var |-> "diff_vector", key |-> "B", comp |-> "y"],
    [src |-> "DEVICE", var |-> "glint_point", key |-> "A", comp |-> "x"],
    [src |-> "DEVICE", var |-> "glint_point", key |-> "A", comp |-> "y"],
    [src |-> "DEVICE", var |-> "glint_point", key |-> "B", comp |-> "x"],
    [src |-> "DEVICE", var |-> "glint_point", key |-> "B", comp |-> "y"],
    [src |-> "DEVICE", var |-> "glint_centroid", key |-> "A", comp |-> "x"],
    [src |-> "DEVICE", var |-> "glint_centroid", key |-> "A", comp |-> "y"],
    [src |-> "DEVICE", var |-> "glint_centroid", key |-> "B", comp |-> "x"],
    [src |-> "DEVICE", var |-> "glint_centroid", key |-> "B", comp |-> "y"],
    [src |-> "DEVICE", var |-> "data_quality", key |-> "A", comp |-> "value"],
    [src |-> "DEVICE", var |-> "data_quality", key |-> "B", comp |-> "value"],
    [src |-> "DEVICE", var |-> "data_time", key |-> "A", comp |-> "value"],
    [src |-> "DEVICE", var |-> "data_time", key |-> "B", comp |-> "value"],
    [src |-> "DEVICE", var |-> "data_delta_time", key |-> "A", comp |-> "value"],
    [src |-> "DEVICE", var |-> "data_delta_time", key |-> "B", comp |-> "value"],
    [src |-> "DEVICE", var |-> "store_time", key |-> "A", comp |-> "value"],
    [src |-> "DEVICE", var |-> "store_time", key |-> "B", comp |-> "value"],
    [src |-> "DEVICE", var |-> "store_delta_time", key |-> "A", comp |-> "value"],
    [src |-> "DEVICE", var |-> "store_delta_time", key |-> "B", comp |-> "value"],
    [src |-> "current_time", var |-> "", key |-> "", comp |-> "value"]
  >>

\* ---- clocks ------------------------------------------------------------
\* The consumer clock and the device clock tick at the same rate from
\* different epochs: local_clock() reads LslEpoch ticks ahead of the device.
LslEpoch == 10

local_clock(t) == LslEpoch + t

\* ---- callback ----------------------------------------------------------
\* The filter without its test of the message kind.
Actionable_AnyMsg(msg, sub_msg) == sub_msg = EYE_A

\* The filter letting both eyes through.
Actionable_BothEyes(msg, sub_msg) ==
  msg = VPX_DAT_FRESH /\ sub_msg \in {EYE_A, EYE_B}

\* The filter without its test of the sub-message.
Actionable_AnyEye(msg, sub_msg) == msg = VPX_DAT_FRESH

\* The filter of the callback.
Actionable(msg, sub_msg) == msg = VPX_DAT_FRESH /\ sub_msg = EYE_A

\* A collect phase that stops at the first accessor call that returns a
\* non-zero status.
RECURSIVE Run_StopOnFailure(_, _, _, _, _, _)
Run_StopOnFailure(dev, calls, k, upto, f, failed) ==
  IF k > upto \/ k \in failed THEN dev
  ELSE LET c == calls[k]
       IN Run_StopOnFailure([dev EXCEPT ![c.slot] = Register(c.acc, c.sel, f)],
                            calls, k + 1, upto, f, failed)

\* Device State after statements k..upto of the collect phase ran against
\* frame f, starting from dev.  A call whose index is in failed returned a
\* non-zero status and left its out value untouched; the callback does not
\* look at the status.
RECURSIVE Run(_, _, _, _, _, _)
Run(dev, calls, k, upto, f, failed) ==
  IF k > upto THEN dev
  ELSE LET c == calls[k]
       IN Run(IF k \in failed THEN dev
              ELSE [dev EXCEPT ![c.slot] = Register(c.acc, c.sel, f)],
              calls, k + 1, upto, f, failed)

\* A collect phase that does not refresh the binocular slots.
Collect_SkipBinocular(dev, upto, f, failed) ==
  Run(dev, CALLS, 1, upto, f, failed \cup {13, 18})

Collect(dev, upto, f, failed) == Run(dev, CALLS, 1, upto, f, failed)

\* The slots handed to an accessor by the first upto statements.
Targets(upto) == {CALLS[k].slot : k \in 1..upto}

\* Assembly that puts the delay since the frame was stored, which depends on
\* the device clock, in the store_delta_time channels.
Field_Delay(dev, current_time, d) ==
  IF d.src = "current_time" \/ d.var = "store_delta_time"
  THEN [reg |-> current_time, comp |-> d.comp]
  ELSE [reg |-> dev[<<d.var, d.key>>], comp |-> d.comp]

\* One operand of np.array.
Field(dev, current_time, d) ==
  IF d.src = "current_time"
  THEN [reg |-> current_time, comp |-> d.comp]
  ELSE [reg |-> dev[<<d.var, d.key>>], comp |-> d.comp]

Assemble(dev, current_time) ==
  [i \in 1..Len(DATA) |-> Field(dev, current_time, DATA[i])]

\* A timestamp that is the age of the frame: the time of the device clock
\* less the store time of eye A.
Timestamp_Age(now, current_time, acquisition_time) ==
  current_time.num - acquisition_time.num

\* The timestamp handed to push_sample.
Timestamp(now, current_time, acquisition_time) == 0

\* An exit code that reports an accessor's non-zero status.
ExitCode_Status(msg, sub_msg, failed) == IF failed = {} THEN 0 ELSE 1

\* The exit code of the callback.
ExitCode(msg, sub_msg, failed) == 0

\* A push that sends the sample twice.
push_sample_Twice(outlet, data, timestamp) ==
  [outlet EXCEPT !.n_samples = @ + 2, !.data = data, !.timestamp = timestamp]

\* StreamOutlet.push_sample: the outlet keeps the count of samples pushed
\* and the most recent one.
push_sample(outlet, data, timestamp) ==
  [outlet EXCEPT !.n_samples = @ + 1, !.data = data, !.timestamp = timestamp]

\* The statement at which the invocation stops with an exception: the first
\* helper that raises, or the statement the environment makes raise (raiseAt,
\* 0 for none).  Statements 1..NCalls are the accessor calls, NCalls + 1 is
\* the read of the device clock, NCalls + 2 the assembly, NCalls + 3 the push.
StopAt(raiseAt) ==
  LET bad == {k \in 1..NCalls : CALLS[k].err # "none"} \cup ({raiseAt} \ {0})
  IN IF bad = {} THEN 0 ELSE CHOOSE k \in bad : \A j \in bad : k <= j

Idle ==
  [msg |-> 0, sub_msg |-> 0, frame |-> 0,
   outcome |-> "none",
   ret |-> Nil, now |-> Nil, current_time |-> Nil, touched |-> {},
   failed |-> {}]

callback(msg, sub_msg, p1, p2, failed, raiseAt) ==
  LET here == [msg |-> msg, sub_msg |-> sub_msg, frame |-> vpx.frame]
  IN
  IF Actionable(msg, sub_msg)
  THEN
    LET now == local_clock(vpx.time)
        stop == StopAt(raiseAt)
        upto == IF stop \in 1..NCalls THEN stop - 1 ELSE NCalls
        dev == Collect(DEVICE, upto, vpx.frame, failed)
        acquisition_time == dev[<<"store_time", "A">>]
        current_time == VPX_GetPrecisionDeltaTime(vpx.time)
        data == Assemble(dev, current_time)
    IN
    /\ OUTLET.n_samples < MaxPush
    /\ DEVICE' = dev
    /\ IF stop # 0
       THEN /\ inv' = here @@
                  [outcome |-> "raised", ret |-> Nil, now |-> now,
                   current_time |-> IF stop > NCalls + 1 THEN vpx.time ELSE Nil,
                   touched |-> Targets(upto),
                   failed |-> failed \cap (1..upto)]
            /\ UNCHANGED <<OUTLET, snap>>
       ELSE /\ OUTLET' = push_sample(OUTLET, data,
                           Timestamp(now, current_time, acquisition_time))
            /\ snap' = dev
            /\ inv' = here @@
                  [outcome |-> "pushed", ret |-> ExitCode(msg, sub_msg, failed),
                   now |-> now, current_time |-> vpx.time,
                   touched |-> Targets(upto), failed |-> failed]
    /\ UNCHANGED vpx
  ELSE
    /\ inv' = here @@
          [outcome |-> "ignored", ret |-> ExitCode(msg, sub_msg, {}), now |-> Nil,
           current_time |-> Nil, touched |-> {}, failed |-> {}]
    /\ UNCHANGED <<DEVICE, OUTLET, snap, vpx>>

\* ---- stream setup: the module body of callback.py ----------------------
\* An unset configuration value, and a module-level name not assigned yet.
None == "None"
Undefined == <<>>

\* The accessors bound from the DLL, in the order of their binding.
ACCESSORS ==
  <<
    "vpx_get_gaze_point", "vpx_get_gaze_point_smoothed",
    "vpx_get_gaze_point_corrected", "vpx_get_gaze_binocular",
    "vpx_get_gaze_angle", "vpx_get_gaze_angle_smoothed",
    "vpx_get_gaze_angle_corrected",
    "vpx_get_total_velocity", "vpx_get_component_velocity",
    "vpx_get_velocity_binocular",
    "vpx_get_pupil_size", "vpx_get_pupil_aspect_ratio",
    "vpx_get_pupil_oval_rect", "vpx_get_pupil_angle",
    "vpx_get_pupil_diameter", "vpx_get_pupil_point",
    "vpx_get_pupil_centroid", "vpx_get_diff_vector",
    "vpx_get_glint_point", "vpx_get_glint_centroid",
    "vpx_get_data_quality",
    "vpx_get_data_time", "vpx_get_data_delta_time",
    "vpx_get_store_time", "vpx_get_store_delta_time"
  >>

AllAccessors == {ACCESSORS[k] : k \in 1..Len(ACCESSORS)}

\* A module body that asks for the precision timer only after the accessors
\* are bound.
SETUP_TimerAfterBinding ==
  <<"config", "load_lib", "version", "bind", "timer", "device", "outlet",
    "register">>

\* A module body that registers the callback before Device State and the
\* outlet exist.
SETUP_RegisterEarly ==
  <<"config", "load_lib", "version", "timer", "bind", "register", "device",
    "outlet">>

\* The statements of the module body, in order: the check of the
\* configuration, VPX = load_lib(), the log of the DLL version, the query of
\* the precision timer, the binding of the accessors, DEVICE, _SINFO and
\* _OUTLET, and VPX_InsertCallback.
SETUP ==
  <<"config", "load_lib", "version", "timer", "bind", "device", "outlet",
    "register">>

\* A check of the configuration that looks at the library path only.
ConfigUnknown_PathOnly(lib_path, sampling_rate) == lib_path = None

\* if _LIB_PATH is None or _SAMPLING_RATE is None
ConfigUnknown(lib_path, sampling_rate) ==
  lib_path = None \/ sampling_rate = None

\* ---- lsl.py: the channel information of a stream description -----------
\* The description is the XML tree under desc: an optional 'channels'
\* element and its 'channel' children, each with optional 'label', 'type'
\* and 'unit' children.
MAPPING_LSL ==
  [ch_names |-> "label", ch_types |-> "type", ch_units |-> "unit"]

Kinds == DOMAIN MAPPING_LSL

\* A child of a 'channel' element: missing, present without a text node
\* (as in <label/>), or holding the text v.
NoElement == [el |-> "none", v |-> ""]
BareElement == [el |-> "bare", v |-> ""]
Text(v) == [el |-> "text", v |-> v]

\* channels.append_child("channel")
NoChannel == [label |-> NoElement, type |-> NoElement, unit |-> NoElement]

\* The description of a new StreamInfo: no 'channels' element.
NoDesc == [channels |-> FALSE, channel |-> <<>>]

\* A list of str given to a setter, and a single str.
List(items) == [form |-> "list", items |-> items]
Str(v) == [form |-> "str", items |-> <<v>>]

\* What a getter returns: None, or a list in which "" stands for None.
NoneList == [none |-> TRUE, list |-> <<>>, warned |-> FALSE]

\* ch.child(...).first_child().value(): the text, "" when there is none.
Value(e) == IF e.el = "text" THEN e.v ELSE ""

get_channel_info(self, name) ==
  IF ~self.desc.channels THEN NoneList
  ELSE LET ch_infos ==
             [i \in 1..Len(self.desc.channel) |->
                Value(self.desc.channel[i][MAPPING_LSL[name]])]
       IN IF \A i \in 1..Len(ch_infos) : ch_infos[i] = "" THEN NoneList
          ELSE [none |-> FALSE, list |-> ch_infos,
                warned |-> Len(ch_infos) # self.n_channels]

get_channel_names(self) == get_channel_info(self, "ch_names")
get_channel_types(self) == get_channel_info(self, "ch_types")
get_channel_units(self) == get_channel_info(self, "ch_units")

\* Lines 174-177: a missing child is appended with its value; the text node
\* of an existing child is overwritten; first_child() of a child without a
\* text node is the empty node, on which set_value does nothing.
SetValue(e, v) == IF e.el = "bare" THEN e ELSE Text(v)

\* A setter that leaves the 'channel' elements in excess where they are.
set_channel_info_KeepExcess(self, ch_infos, name) ==
  IF ch_infos.form # "list"
  THEN [desc |-> self.desc, err |-> "TypeError"]
  ELSE IF Len(ch_infos.items) # self.n_channels
  THEN [desc |-> self.desc, err |-> "ValueError"]
  ELSE LET old == self.desc.channel
           f == MAPPING_LSL[name]
           m == IF Len(old) > self.n_channels THEN Len(old)
                ELSE self.n_channels
       IN [desc |->
             [channels |-> TRUE,
              channel |->
                [i \in 1..m |->
                   IF i > self.n_channels THEN old[i]
                   ELSE IF i <= Len(old)
                   THEN [old[i] EXCEPT ![f] = SetValue(@, ch_infos.items[i])]
                   ELSE [NoChannel EXCEPT ![f] = Text(ch_infos.items[i])]]],
           err |-> "none"]

set_channel_info(self, ch_infos, name) ==
  IF ch_infos.form # "list"
  THEN [desc |-> self.desc, err |-> "TypeError"]
  ELSE IF Len(ch_infos.items) # self.n_channels
  THEN [desc |-> self.desc, err |-> "ValueError"]
  ELSE LET old == self.desc.channel
           f == MAPPING_LSL[name]
       IN [desc |->
             [channels |-> TRUE,
              channel |->
                [i \in 1..self.n_channels |->
                   IF i <= Len(old)
                   THEN [old[i] EXCEPT ![f] = SetValue(@, ch_infos.items[i])]
                   ELSE [NoChannel EXCEPT ![f] = Text(ch_infos.items[i])]]],
           err |-> "none"]

\* [ch_types] * self.n_channels if isinstance(ch_types, str) else ch_types
Broadcast_str(self, x) ==
  IF x.form = "str" THEN List([i \in 1..self.n_channels |-> x.items[1]])
  ELSE x

set_channel_names(self, ch_names) ==
  set_channel_info(self, ch_names, "ch_names")
set_channel_types(self, ch_types) ==
  set_channel_info(self, Broadcast_str(self, ch_types), "ch_types")
set_channel_units(self, ch_units) ==
  set_channel_info(self, Broadcast_str(self, ch_units), "ch_units")

\* StreamInfo("ViewPoint", "Gaze", len(_CH_NAMES), sfreq=_SAMPLING_RATE, ...)
SINFO(sampling_rate) ==
  [name |-> "ViewPoint", stype |-> "Gaze", n_channels |-> Len(CH_NAMES),
   sfreq |-> sampling_rate, dtype |-> "float64", source_id |-> "ViewPoint",
   desc |-> NoDesc]

\* StreamOutlet(_SINFO, chunk_size=1): nothing pushed yet.
StreamOutlet == [n_samples |-> 0, data |-> <<>>, timestamp |-> Nil]

\* The start of the execution of the module body with the configuration
\* (lib_path, sampling_rate) and the native library dll.
Import(lib_path, sampling_rate, dll) ==
  [pc |-> 1, LIB_PATH |-> lib_path, SAMPLING_RATE |-> sampling_rate,
   dll |-> dll, VPX |-> FALSE, loads |-> 0, queries |-> 0, bound |-> {},
   sinfo |-> FALSE, registered |-> 0, error |-> "none"]

\* One statement of the module body.  A statement that raises ends the
\* execution of the module: there is no handler around any of them.
Statement ==
  /\ setup.error = "none"
  /\ setup.pc \in 1..Len(SETUP)
  /\ LET stmt == SETUP[setup.pc]
         next == [setup EXCEPT !.pc = @ + 1]
         k == Cardinality(setup.bound) + 1
     IN
     CASE stmt = "config" ->
            /\ setup' = IF ConfigUnknown(setup.LIB_PATH, setup.SAMPLING_RATE)
                        THEN [setup EXCEPT !.error = "RuntimeError"]
                        ELSE next
            /\ UNCHANGED <<DEVICE, OUTLET>>
       [] stmt = "load_lib" ->
            /\ setup' = IF setup.dll.loads
                        THEN [next EXCEPT !.VPX = TRUE, !.loads = @ + 1]
                        ELSE [setup EXCEPT !.loads = @ + 1,
                                           !.error = "RuntimeError"]
            /\ UNCHANGED <<DEVICE, OUTLET>>
       [] stmt = "version" ->
            /\ setup' = next
            /\ UNCHANGED <<DEVICE, OUTLET>>
       [] stmt = "timer" ->
            /\ setup' = IF setup.dll.timer
                        THEN [next EXCEPT !.queries = @ + 1]
                        ELSE [setup EXCEPT !.queries = @ + 1,
                                           !.error = "RuntimeError"]
            /\ UNCHANGED <<DEVICE, OUTLET>>
       [] stmt = "bind" ->
            /\ setup' = IF ACCESSORS[k] = setup.dll.missing
                        THEN [setup EXCEPT !.error = "AttributeError"]
                        ELSE [setup EXCEPT
                                !.bound = @ \cup {ACCESSORS[k]},
                                !.pc = IF k = Len(ACCESSORS) THEN @ + 1 ELSE @]
            /\ UNCHANGED <<DEVICE, OUTLET>>
       [] stmt = "device" ->
            /\ setup' = next
            /\ DEVICE' = ViewPointDevice
            /\ UNCHANGED OUTLET
       [] stmt = "outlet" ->
            /\ setup' = [next EXCEPT !.sinfo = TRUE]
            /\ OUTLET' = StreamOutlet
            /\ UNCHANGED DEVICE
       [] stmt = "register" ->
            /\ setup' = [next EXCEPT !.registered = @ + 1]
            /\ UNCHANGED <<DEVICE, OUTLET>>
  /\ UNCHANGED <<inv, snap, vpx, help, buf, cfg, thr, info>>

\* The native libraries a path can lead to: the ViewPoint DLL, a file that
\* does not load, a DLL without the precision timer, and DLLs that lack the
\* first or the last of the accessors.
DLLs ==
  {[loads |-> TRUE, timer |-> TRUE, missing |-> ""],
   [loads |-> FALSE, timer |-> TRUE, missing |-> ""],
   [loads |-> TRUE, timer |-> FALSE, missing |-> ""],
   [loads |-> TRUE, timer |-> TRUE, missing |-> "vpx_get_gaze_point"],
   [loads |-> TRUE, timer |-> TRUE, missing |-> "vpx_get_store_delta_time"]}

LibPaths == {None, "VPX_InterApp_64.dll"}
SamplingRates == {None, "60"}

\* The module body ran to its end with a complete configuration.
SetupComplete ==
  [Import("VPX_InterApp_64.dll", "60",
          [loads |-> TRUE, timer |-> TRUE, missing |-> ""])
   EXCEPT !.pc = Len(SETUP) + 1, !.VPX = TRUE, !.loads = 1, !.queries = 1,
          !.bound = AllAccessors, !.sinfo = TRUE, !.registered = 1]

\* No helper was called directly; no Buffer was made.  (The definitions of
\* the helpers' and the Buffer's own specifications follow the session's.)
NoHelp ==
  [fn |-> "none", eye |-> "", arg |-> "", optimized |-> FALSE,
   failed |-> FALSE, res |-> Raise("not called", "")]
NoBuffer ==
  [made |-> FALSE, _buffer |-> <<>>, n_channels |-> 0, _idx |-> 0,
   op |-> "none", err |-> "none", added |-> 0]

\* No file was written and config.py was not called.
NoConfig ==
  [file |-> [exists |-> FALSE, lines |-> <<>>],
   op |-> "none",
   res |-> [lib_path |-> [some |-> FALSE, v |-> <<>>],
            sfreq |-> [some |-> FALSE, v |-> 0],
            warned |-> FALSE, err |-> "none"],
   w |-> [path |-> <<>>, sfreq |-> [type |-> "int", val |-> 0],
          err |-> "none"],
   mem |-> [LIB_PATH |-> [some |-> FALSE, v |-> <<>>],
            SAMPLING_RATE |-> [some |-> FALSE, v |-> 0]],
   s |-> [path |-> <<>>, exists |-> FALSE, loads |-> FALSE,
          sfreq |-> [type |-> "int", val |-> 0], err |-> "none"]]

\* No StreamInfo of lsl.py was made.
NoInfo ==
  [made |-> FALSE, n_channels |-> 0,
   desc |-> [channels |-> FALSE, channel |-> <<>>],
   op |-> "none", kind |-> "", arg |-> [form |-> "list", items |-> <<>>],
   err |-> "none", had |-> 0,
   res |-> [none |-> TRUE, list |-> <<>>, warned |-> FALSE]]

\* No invocation is in flight on a second thread: the driver serializes them.
Threads == {1, 2}
NoThreads ==
  [pc |-> [t \in Threads |-> 0],
   now |-> [t \in Threads |-> Nil],
   acquisition_time |-> [t \in Threads |-> Nil],
   current_time |-> [t \in Threads |-> Nil],
   data |-> [t \in Threads |-> <<>>],
   from |-> [t \in Threads |-> {}],
   writer |-> [s \in Slots |-> 0]]

\* ---- the driver and the clocks -----------------------------------------
\* The driver stores a new frame in its registers.
NewFrame ==
  /\ vpx.frame < MaxFrame
  /\ vpx' = [frame |-> vpx.frame + 1,
             time |-> IF vpx.time > vpx.frame THEN vpx.time ELSE vpx.frame + 1]
  /\ UNCHANGED <<DEVICE, OUTLET, inv, snap>>
  /\ UNCHANGED outsideSession

Tick ==
  /\ vpx.time < MaxTime
  /\ vpx' = [vpx EXCEPT !.time = @ + 1]
  /\ UNCHANGED <<DEVICE, OUTLET, inv, snap>>
  /\ UNCHANGED outsideSession

\* ---- specification -----------------------------------------------------
\* The message kinds and the sub-messages the driver sends: a kind other than
\* fresh data, and a channel other than the two eyes, stand for all the others.
Msgs == {VPX_STATUS_ViewPointIsRunning, VPX_DAT_FRESH}
SubMsgs == {EYE_A, EYE_B, SCENE_A}
\* p1 and p2 are reserved parameters, which the callback never reads.
Params == {0, 1}

\* What the environment does to one invocation: nothing, one accessor call
\* that returns a non-zero status, or one statement that raises.
\* The failing calls are statement 13, the binocular gaze point, and statement
\* 43, the store time of eye A; the raising statements are the first accessor
\* call, the first velocity call (statement 14) and the push.
Faults ==
  {[failed |-> {}, raiseAt |-> 0],
   [failed |-> {13}, raiseAt |-> 0],
   [failed |-> {43}, raiseAt |-> 0],
   [failed |-> {}, raiseAt |-> 1],
   [failed |-> {}, raiseAt |-> 14],
   [failed |-> {}, raiseAt |-> NCalls + 3]}

\* The session starts when the module body has run to its end.
Init ==
  /\ DEVICE = ViewPointDevice
  /\ OUTLET = StreamOutlet
  /\ inv = Idle
  /\ snap = ViewPointDevice
  /\ vpx = [frame |-> 1, time |-> 1]
  /\ setup = SetupComplete
  /\ help = NoHelp
  /\ buf = NoBuffer
  /\ cfg = NoConfig
  /\ thr = NoThreads
  /\ info = NoInfo

Event ==
  \E msg \in Msgs, sub_msg \in SubMsgs, p1 \in Params, p2 \in Params :
    \E fault \in Faults :
      /\ Actionable(msg, sub_msg) \/ (fault.failed = {} /\ fault.raiseAt = 0)
      /\ callback(msg, sub_msg, p1, p2, fault.failed, fault.raiseAt)
      /\ UNCHANGED outsideSession

Next == Event \/ NewFrame \/ Tick

Spec == Init /\ [][Next]_vars

\* ---- specification of stream setup -------------------------------------
\* The module body runs once, under every configuration and native library;
\* the driver invokes the callback only once it is registered, and the
\* session is followed from then on.
SetupInit ==
  /\ \E lib_path \in LibPaths, sampling_rate \in SamplingRates, dll \in DLLs :
       setup = Import(lib_path, sampling_rate, dll)
  /\ DEVICE = Undefined
  /\ OUTLET = Undefined
  /\ inv = Idle
  /\ snap = ViewPointDevice
  /\ vpx = [frame |-> 1, time |-> 1]
  /\ help = NoHelp
  /\ buf = NoBuffer
  /\ cfg = NoConfig
  /\ thr = NoThreads
  /\ info = NoInfo

Session == setup.registered > 0 /\ (Event \/ NewFrame \/ Tick)

SetupNext == Statement \/ Session

SetupSpec == SetupInit /\ [][SetupNext]_vars

\* ---- specification of the dispatch helpers -----------------------------
Helpers ==
  {"get_gaze_point", "get_gaze_angle", "get_gaze_velocity",
   "get_pupil_property"}

Dispatch(fn, eye, name) ==
  CASE fn = "get_gaze_point" -> get_gaze_point(eye, name)
    [] fn = "get_gaze_angle" -> get_gaze_angle(eye, name)
    [] fn = "get_gaze_velocity" -> get_gaze_velocity(eye, name)
    [] fn = "get_pupil_property" -> get_pupil_property(eye, name)

\* The helper as it runs when the interpreter strips assert statements
\* (python -O): an eye selector that the assertion would have refused takes
\* the branch of a single eye, where the table is looked up first and
\* variable[eye] then raises KeyError, the slots being keyed by "A" and "B".
Stripped(fn, eye, name) ==
  LET r == Dispatch(fn, "A", name)
  IN IF Dispatch(fn, eye, name).err # "AssertionError"
     THEN Dispatch(fn, eye, name)
     ELSE IF r.err = "ValueError" THEN r ELSE Raise("KeyError", eye)

\* One call fn(DEVICE, eye, name): the helper raises, or calls the accessor
\* it selected, which fills the slot unless it returns a non-zero status.
HelperCall(fn, eye, name, optimized, failed) ==
  LET res == IF optimized THEN Stripped(fn, eye, name)
             ELSE Dispatch(fn, eye, name)
  IN /\ help.fn = "none"
     /\ help' = [fn |-> fn, eye |-> eye, arg |-> name,
                 optimized |-> optimized,
                 failed |-> failed /\ res.err = "none", res |-> res]
     /\ DEVICE' = IF res.err = "none" /\ ~failed
                  THEN [DEVICE EXCEPT
                          ![res.slot] = Register(res.acc, res.sel, vpx.frame)]
                  ELSE DEVICE
     /\ UNCHANGED <<OUTLET, inv, snap, vpx, setup, buf, cfg, thr, info>>

\* The arguments a caller passes: the documented eye selectors and names,
\* and others.
EyeArgs == {"A", "B", "AB", "C", "a"}
NameArgs ==
  {"raw", "smoothed", "corrected", "total", "component", "size",
   "aspect_ratio", "oval_rect", "angle", "diameter", "point", "centroid",
   "None", "", "binocular", "Raw"}

\* The helper is called on a Device State that is new, or that a frame has
\* filled.
HelperInit ==
  /\ DEVICE \in {ViewPointDevice, Collect(ViewPointDevice, NCalls, 1, {})}
  /\ \E f \in 1..MaxFrame : vpx = [frame |-> f, time |-> f]
  /\ help = NoHelp
  /\ OUTLET = StreamOutlet
  /\ inv = Idle
  /\ snap = ViewPointDevice
  /\ setup = SetupComplete
  /\ buf = NoBuffer
  /\ cfg = NoConfig
  /\ thr = NoThreads
  /\ info = NoInfo

HelperNext ==
  \E fn \in Helpers, eye \in EyeArgs, name \in NameArgs :
    \E optimized \in BOOLEAN, failed \in BOOLEAN :
      HelperCall(fn, eye, name, optimized, failed)

HelperSpec == HelperInit /\ [][HelperNext]_vars

\* ---- specification of Buffer (buffer.py) -------------------------------
\* Buffer(ch_names, bufsize): np.zeros((bufsize, len(ch_names))) and a fill
\* index of 0.  The record also keeps the most recent method call, the
\* exception it raised, and the number of add_sample calls that returned
\* since the Buffer was made or last reset (kept by the caller's steps).
Buffer(ch_names, size) ==
  [made |-> TRUE,
   _buffer |-> [r \in 1..size |-> [c \in 1..Len(ch_names) |-> 0]],
   n_channels |-> Len(ch_names), _idx |-> 0, op |-> "none", err |-> "none",
   added |-> 0]

bufsize(b) == Len(b._buffer)

\* An is_full that already holds when one row is left.
is_full_Early(b) == b._idx + 1 >= bufsize(b)

is_full(b) == b._idx = bufsize(b)

\* The row that numpy stores for data: data itself when it has one value per
\* channel, its single value in every channel when it has one value.
Broadcast(b, data) ==
  IF Len(data) = b.n_channels THEN data
  ELSE [c \in 1..b.n_channels |-> data[1]]

\* An add_sample that does not check the row index against the buffer.
add_sample_Unchecked(b, data) ==
  [b EXCEPT !._idx = @ + 1, !.op = "add_sample", !.err = "none"]

\* An add_sample that starts again at the first row when the buffer is full.
add_sample_Wrap(b, data) ==
  IF Len(data) \notin {1, b.n_channels} \/ bufsize(b) = 0
  THEN [b EXCEPT !.op = "add_sample", !.err = "ValueError"]
  ELSE [b EXCEPT !._buffer[(b._idx % bufsize(b)) + 1] = Broadcast(b, data),
                 !._idx = (b._idx % bufsize(b)) + 1,
                 !.op = "add_sample", !.err = "none"]

\* add_sample: self._buffer[self._idx, :] = data raises IndexError when the
\* index is not a row of the array and ValueError when data does not fit a
\* row; self._idx += 1 runs only when it did not raise.
add_sample(b, data) ==
  IF ~(b._idx \in 0..(bufsize(b) - 1))
  THEN [b EXCEPT !.op = "add_sample", !.err = "IndexError"]
  ELSE IF Len(data) \notin {1, b.n_channels}
  THEN [b EXCEPT !.op = "add_sample", !.err = "ValueError"]
  ELSE [b EXCEPT !._buffer[b._idx + 1] = Broadcast(b, data),
                 !._idx = @ + 1, !.op = "add_sample", !.err = "none"]

\* A reset that also zeroes the rows.
reset_Clear(b) ==
  [b EXCEPT !._buffer = [r \in 1..bufsize(b) |-> [c \in 1..b.n_channels |-> 0]],
            !._idx = 0, !.op = "reset", !.err = "none"]

reset(b) == [b EXCEPT !._idx = 0, !.op = "reset", !.err = "none"]

\* The samples a caller adds: one value per channel, one value for all the
\* channels, and more values than any buffer has channels.
Samples == {<<1>>, <<2>>, <<1, 2>>, <<2, 1>>, <<1, 2, 1>>}

ChNames == {<<"x">>, <<"x", "y">>}

AddSample ==
  /\ \E data \in Samples :
       LET b == add_sample(buf, data)
       IN buf' = [b EXCEPT !.added = IF b.err = "none" THEN @ + 1 ELSE @]
  /\ UNCHANGED <<DEVICE, OUTLET, inv, snap, vpx, setup, help, cfg, thr, info>>

Reset ==
  /\ buf' = [reset(buf) EXCEPT !.added = 0]
  /\ UNCHANGED <<DEVICE, OUTLET, inv, snap, vpx, setup, help, cfg, thr, info>>

BufferInit ==
  /\ \E ch_names \in ChNames, size \in 0..MaxBufsize :
       buf = Buffer(ch_names, size)
  /\ DEVICE = ViewPointDevice
  /\ OUTLET = StreamOutlet
  /\ inv = Idle
  /\ snap = ViewPointDevice
  /\ vpx = [frame |-> 1, time |-> 1]
  /\ setup = SetupComplete
  /\ help = NoHelp
  /\ cfg = NoConfig
  /\ thr = NoThreads
  /\ info = NoInfo

BufferNext == AddSample \/ Reset

BufferSpec == BufferInit /\ [][BufferNext]_vars

\* ---- specification of the configuration file (config.py) ---------------
\* Text is a sequence of tokens: each character that ConfigParser gives a
\* meaning to (" ", "#", ";", "%", "=") is a token, and so is a run of other
\* characters.  A line is such a sequence and a file is a sequence of lines.
Absent == [exists |-> FALSE, lines |-> <<>>]
TextFile(lines) == [exists |-> TRUE, lines |-> lines]

\* Optional values: None, and a value that is set.
NonePath == [some |-> FALSE, v |-> <<>>]
NoneRate == [some |-> FALSE, v |-> 0]
Some(v) == [some |-> TRUE, v |-> v]

RECURSIVE LStrip(_)
LStrip(t) == IF t # <<>> /\ t[1] = " " THEN LStrip(Tail(t)) ELSE t

RECURSIVE RStrip(_)
RStrip(t) ==
  IF t # <<>> /\ t[Len(t)] = " " THEN RStrip(SubSeq(t, 1, Len(t) - 1)) ELSE t

Strip(t) == LStrip(RStrip(t))

\* ConfigParser(inline_comment_prefixes=("#", ";")): a prefix that starts
\* the line or follows a space starts a comment.
CommentStart(line) ==
  LET starts == {i \in 1..Len(line) :
                   line[i] \in {"#", ";"} /\ (i = 1 \/ line[i - 1] = " ")}
  IN IF starts = {} THEN Len(line) + 1
     ELSE CHOOSE i \in starts : \A j \in starts : i <= j

Uncomment(line) == Strip(SubSeq(line, 1, CommentStart(line) - 1))

IsHeader(line) == Len(line) = 1 /\ line[1] \in {"[config]", "[other]"}

\* The position of the first delimiter of the line, 0 when it has none.
Delimiter(line) ==
  LET ds == {i \in 1..Len(line) : line[i] = "="}
  IN IF ds = {} THEN 0 ELSE CHOOSE i \in ds : \A j \in ds : i <= j

\* ConfigParser.read, line by line from line k: sect is the section being
\* read, opts the options read, bad tells that a line was neither a header
\* nor an option (ParsingError, raised once the file is read), err is the
\* exception that stopped the reading.
RECURSIVE ReadLines(_, _, _)
ReadLines(lines, k, st) ==
  IF k > Len(lines) \/ st.err # "none" THEN st
  ELSE
    LET line == Uncomment(lines[k])
        d == Delimiter(line)
        key == Strip(SubSeq(line, 1, d - 1))
        val == Strip(SubSeq(line, d + 1, Len(line)))
    IN ReadLines(lines, k + 1,
         IF line = <<>> THEN st
         ELSE IF IsHeader(line)
           THEN IF line[1] \in st.sections
                THEN [st EXCEPT !.err = "DuplicateSectionError"]
                ELSE [st EXCEPT !.sect = line[1],
                                !.sections = @ \cup {line[1]}]
         ELSE IF st.sect = ""
           THEN [st EXCEPT !.err = "MissingSectionHeaderError"]
         ELSE IF d = 0 THEN [st EXCEPT !.bad = TRUE]
         ELSE IF \E o \in st.opts : o.sect = st.sect /\ o.key = key
           THEN [st EXCEPT !.err = "DuplicateOptionError"]
         ELSE [st EXCEPT
                 !.opts = @ \cup {[sect |-> st.sect, key |-> key, val |-> val]}])

ConfigRead(lines) ==
  LET st == ReadLines(lines, 1,
              [sect |-> "", sections |-> {}, opts |-> {}, bad |-> FALSE,
               err |-> "none"])
  IN IF st.err = "none" /\ st.bad THEN [st EXCEPT !.err = "ParsingError"]
     ELSE st

\* config["config"][key]: KeyError without the section or the option, and
\* the interpolation of the value refuses a "%" that stands alone.
ConfigGet(st, key) ==
  LET found == {o \in st.opts : o.sect = "[config]" /\ o.key = <<key>>}
  IN IF found = {} THEN [err |-> "KeyError", val |-> <<>>]
     ELSE LET o == CHOOSE x \in found : TRUE
          IN IF \E i \in 1..Len(o.val) : o.val[i] = "%"
             THEN [err |-> "InterpolationSyntaxError", val |-> <<>>]
             ELSE [err |-> "none", val |-> o.val]

\* The numbers of the model and their literals: str(60) is "60", str(60.0)
\* is "60.0", and float reads both as 60.0.
NumLits ==
  {[type |-> "int", val |-> 60, lit |-> "60"],
   [type |-> "float", val |-> 60, lit |-> "60.0"],
   [type |-> "int", val |-> 101, lit |-> "101"],
   [type |-> "float", val |-> 101, lit |-> "101.0"]}

str(x) == (CHOOSE n \in NumLits : n.type = x.type /\ n.val = x.val).lit

float(t) ==
  IF Len(t) = 1 /\ \E n \in NumLits : n.lit = t[1]
  THEN [err |-> "none", val |-> (CHOOSE n \in NumLits : n.lit = t[1]).val]
  ELSE [err |-> "ValueError", val |-> 0]

\* load_config(fname).  A call that raises returns nothing: err names the
\* exception.
load_config(file) ==
  IF ~file.exists
  THEN [lib_path |-> NonePath, sfreq |-> NoneRate, warned |-> FALSE,
        err |-> "none"]
  ELSE
    LET config == ConfigRead(file.lines)
        lib_path == ConfigGet(config, "VPX_InterApp_64.dll")
        sfreq == ConfigGet(config, "sfreq")
    IN IF config.err # "none"
       THEN [lib_path |-> NonePath, sfreq |-> NoneRate, warned |-> FALSE,
             err |-> config.err]
       ELSE IF \/ lib_path.err # "none"
               \/ sfreq.err # "none"
               \/ float(sfreq.val).err # "none"
       THEN [lib_path |-> NonePath, sfreq |-> NoneRate, warned |-> TRUE,
             err |-> "none"]
       ELSE [lib_path |-> Some(lib_path.val),
             sfreq |-> Some(float(sfreq.val).val),
             warned |-> FALSE, err |-> "none"]

\* write_config(path, sfreq, fname), path being str(path) of a file that
\* exists and sfreq a number: the assignment of the section refuses a value
\* with a "%" that stands alone, before the file is opened; config.write
\* writes the header, one line "key = value" for each option, and an empty
\* line.
write_config(file, path, sfreq) ==
  IF \E i \in 1..Len(path) : path[i] = "%"
  THEN [file |-> file, err |-> "ValueError"]
  ELSE [file |->
          TextFile(<< <<"[config]">>,
                      <<"VPX_InterApp_64.dll", " ", "=", " ">> \o path,
                      <<"sfreq", " ", "=", " ", str(sfreq)>>,
                      <<>> >>),
        err |-> "none"]

\* set_config(path, sfreq) of __init__.py, called with the in-memory pair
\* mem = (_LIB_PATH, _SAMPLING_RATE) and the configuration file; exists and
\* loads tell whether a file is at path and whether cdll.LoadLibrary takes
\* it.  The checks come first, then the two globals are assigned, then the
\* file is written.
set_config(mem, file, path, exists, loads, sfreq) ==
  IF sfreq.type \notin {"int", "float"}
  THEN [mem |-> mem, file |-> file, err |-> "TypeError"]
  ELSE IF ~exists
  THEN [mem |-> mem, file |-> file, err |-> "FileNotFoundError"]
  ELSE IF ~loads
  THEN [mem |-> mem, file |-> file, err |-> "RuntimeError"]
  ELSE LET SAMPLING_RATE == [type |-> "float", val |-> sfreq.val]
           out == write_config(file, path, SAMPLING_RATE)
       IN [mem |-> [LIB_PATH |-> Some(path),
                    SAMPLING_RATE |-> Some(SAMPLING_RATE.val)],
           file |-> out.file, err |-> out.err]

\* The paths and sampling rates a caller configures, and the files a user
\* leaves in place of the configuration file.
Paths ==
  {<<"/path/to/lib">>,
   <<"/path", " ", "to/lib">>,
   <<"/path", " ", "#", "2/lib">>,
   <<"/path", "#", "2/lib">>,
   <<"/path", " ", ";", "to/lib">>,
   <<"/path/100", "%", "/lib">>}

Rates == {[type |-> t, val |-> v] : t \in {"int", "float"}, v \in {60, 101}}

DllLine == <<"VPX_InterApp_64.dll", " ", "=", " ", "/path/to/lib">>
SfreqLine == <<"sfreq", " ", "=", " ", "60">>

Files ==
  {<< <<"[config]">>, DllLine, SfreqLine >>,
   << >>,
   << <<"[other]">>, DllLine, SfreqLine >>,
   << <<"[config]">>, SfreqLine >>,
   << <<"[config]">>, DllLine >>,
   << <<"[config]">>, DllLine, <<"sfreq", " ", "=", " ", "fast">> >>,
   << DllLine, SfreqLine >>,
   << <<"[config]">>, DllLine, SfreqLine, <<"garbled">> >>,
   << <<"[config]">>, DllLine, SfreqLine, SfreqLine >>,
   << <<"#", " ", "ViewPoint">>, <<"[config]">>,
      DllLine \o <<" ", "#", " ", "x64">>,
      <<"sfreq", "=", "60.0", " ", ";", " ", "Hz">> >>}

LoadConfig ==
  /\ cfg' = [cfg EXCEPT !.op = "load", !.res = load_config(cfg.file)]
  /\ UNCHANGED <<DEVICE, OUTLET, inv, snap, vpx, setup, help, buf, thr, info>>

WriteConfig ==
  /\ \E path \in Paths, sfreq \in Rates :
       LET out == write_config(cfg.file, path, sfreq)
       IN cfg' = [cfg EXCEPT !.op = "write", !.file = out.file,
                             !.w = [path |-> path, sfreq |-> sfreq,
                                    err |-> out.err]]
  /\ UNCHANGED <<DEVICE, OUTLET, inv, snap, vpx, setup, help, buf, thr, info>>

\* The user edits or removes the configuration file.
EditFile ==
  /\ \E file \in {TextFile(lines) : lines \in Files} \cup {Absent} :
       cfg' = [cfg EXCEPT !.op = "edit", !.file = file]
  /\ UNCHANGED <<DEVICE, OUTLET, inv, snap, vpx, setup, help, buf, thr, info>>

\* A caller sets the configuration: to a path with or without a file
\* behind it, which loads or does not, and a sampling rate or a string.
SetConfig ==
  /\ \E path \in Paths, exists \in BOOLEAN, loads \in BOOLEAN :
       \E sfreq \in Rates \cup {[type |-> "str", val |-> 60]} :
         LET out == set_config(cfg.mem, cfg.file, path, exists, loads, sfreq)
         IN /\ exists \/ ~loads
            /\ cfg' = [cfg EXCEPT !.op = "set", !.mem = out.mem,
                                  !.file = out.file,
                                  !.s = [path |-> path, exists |-> exists,
                                         loads |-> loads, sfreq |-> sfreq,
                                         err |-> out.err]]
  /\ UNCHANGED <<DEVICE, OUTLET, inv, snap, vpx, setup, help, buf, thr, info>>

ConfigInit ==
  /\ cfg = NoConfig
  /\ thr = NoThreads
  /\ info = NoInfo
  /\ DEVICE = ViewPointDevice
  /\ OUTLET = StreamOutlet
  /\ inv = Idle
  /\ snap = ViewPointDevice
  /\ vpx = [frame |-> 1, time |-> 1]
  /\ setup = SetupComplete
  /\ help = NoHelp
  /\ buf = NoBuffer

ConfigNext == LoadConfig \/ WriteConfig \/ EditFile

ConfigSpec == ConfigInit /\ [][ConfigNext]_vars

\* ---- specification of StreamInfo (lsl.py) ------------------------------
MaxChannels == 2

\* StreamInfo(name, stype, n_channels, ...) whose description holds desc.
StreamInfo(n_channels, desc) ==
  [NoInfo EXCEPT !.made = TRUE, !.n_channels = n_channels, !.desc = desc]

\* The 'channel' elements a description holds when it was not filled by the
\* setters alone (received from a stream, or edited through desc): one with
\* the three children set, one whose label has no text (<label/>).
ChannelElements ==
  {[label |-> Text("x"), type |-> Text("eeg"), unit |-> Text("uV")],
   [label |-> BareElement, type |-> Text("eeg"), unit |-> Text("uV")]}

RECURSIVE Seqs(_, _)
Seqs(S, n) ==
  IF n = 0 THEN {<<>>}
  ELSE {Append(q, x) : q \in Seqs(S, n - 1), x \in S}

Descs ==
  {NoDesc} \cup
  {[channels |-> TRUE, channel |-> c] :
     c \in UNION {Seqs(ChannelElements, k) : k \in 0..(MaxChannels + 1)}}

\* The arguments of the setters: the lists of up to MaxChannels values,
\* lists with one value more, and a single str.
ChInfos(name) ==
  LET values == IF name = "ch_names" THEN {"a", "b"}
                ELSE IF name = "ch_types" THEN {"eeg"} ELSE {"uV"}
  IN {List(q) : q \in UNION {Seqs(values, k) : k \in 0..MaxChannels}}
       \cup {List([i \in 1..(MaxChannels + 1) |-> v]) : v \in values}
       \cup {Str(v) : v \in values}

Setter(self, ch_infos, name) ==
  CASE name = "ch_names" -> set_channel_names(self, ch_infos)
    [] name = "ch_types" -> set_channel_types(self, ch_infos)
    [] name = "ch_units" -> set_channel_units(self, ch_infos)

Getter(self, name) ==
  CASE name = "ch_names" -> get_channel_names(self)
    [] name = "ch_types" -> get_channel_types(self)
    [] name = "ch_units" -> get_channel_units(self)

\* One call of a setter; had is the number of 'channel' elements before it.
SetChannelInfo ==
  /\ \E name \in Kinds : \E ch_infos \in ChInfos(name) :
       LET out == Setter(info, ch_infos, name)
       IN info' = [info EXCEPT !.op = "set", !.kind = name, !.arg = ch_infos,
                               !.desc = out.desc, !.err = out.err,
                               !.had = Len(info.desc.channel),
                               !.res = NoneList]
  /\ UNCHANGED <<DEVICE, OUTLET, inv, snap, vpx, setup, help, buf, cfg, thr>>

\* One call of a getter.  The record keeps the most recent call only.
GetChannelInfo ==
  /\ \E name \in Kinds :
       info' = [info EXCEPT !.op = "get", !.kind = name, !.err = "none",
                            !.arg = List(<<>>), !.had = 0,
                            !.res = Getter(info, name)]
  /\ UNCHANGED <<DEVICE, OUTLET, inv, snap, vpx, setup, help, buf, cfg, thr>>

InfoInit ==
  /\ \E n_channels \in 1..MaxChannels, desc \in Descs :
       info = StreamInfo(n_channels, desc)
  /\ DEVICE = ViewPointDevice
  /\ OUTLET = StreamOutlet
  /\ inv = Idle
  /\ snap = ViewPointDevice
  /\ vpx = [frame |-> 1, time |-> 1]
  /\ setup = SetupComplete
  /\ help = NoHelp
  /\ buf = NoBuffer
  /\ cfg = NoConfig
  /\ thr = NoThreads

InfoNext == SetChannelInfo \/ GetChannelInfo

InfoSpec == InfoInit /\ [][InfoNext]_vars

\* ---- specification of set_config (__init__.py) -------------------------
\* The package is imported with some configuration file in place, or none:
\* line 8 loads the in-memory pair from it (an import whose load_config
\* raises makes no process).  Then the caller sets configurations.
Import_init(file) ==
  [NoConfig EXCEPT
     !.file = file,
     !.mem = [LIB_PATH |-> load_config(file).lib_path,
              SAMPLING_RATE |-> load_config(file).sfreq]]

SetConfigInit ==
  /\ \E file \in {TextFile(lines) : lines \in Files} \cup {Absent} :
       /\ load_config(file).err = "none"
       /\ cfg = Import_init(file)
  /\ DEVICE = ViewPointDevice
  /\ OUTLET = StreamOutlet
  /\ inv = Idle
  /\ snap = ViewPointDevice
  /\ vpx = [frame |-> 1, time |-> 1]
  /\ setup = SetupComplete
  /\ help = NoHelp
  /\ buf = NoBuffer
  /\ thr = NoThreads
  /\ info = NoInfo

SetConfigNext == SetConfig

SetConfigSpec == SetConfigInit /\ [][SetConfigNext]_vars

\* ======================================================================
\* The callback on two threads of the driver
\* ======================================================================
\* callback holds no lock and touches the module-level DEVICE (callback.py
\* line 102) and _OUTLET: when the driver delivers a second event before the
\* first invocation has returned, the statements of the two invocations
\* interleave.  A thread is switched between the paragraphs of the collect
\* phase (gaze, velocity, pupil, glint, quality, timestamps), and before the
\* read of the device clock, the assembly and the push; switches between
\* the calls of one paragraph add interleavings of the same kind.
\* thr.writer is history: the thread whose accessor call wrote each slot
\* last, and thr.from[t] the writers of the slots thread t's sample read.

\* The index in CALLS of the last call of each paragraph.
BlockEnd ==
  LET g == Len(GazeCalls)
      v == g + Len(VelocityCalls)
      p == v + Len(PupilCalls)
      l == p + Len(GlintCalls)
      q == l + Len(QualityCalls)
  IN <<g, v, p, l, q, q + Len(TimestampCalls)>>

NBlocks == Len(BlockEnd)
\* Paragraphs whose first call is left out.
BlockStart_Skip(b) == IF b = 1 THEN 1 ELSE BlockEnd[b - 1] + 2

BlockStart(b) == IF b = 1 THEN 1 ELSE BlockEnd[b - 1] + 1

\* The positions of a thread after the collect phase.
AtClock == NBlocks + 1
AtAssembly == NBlocks + 2
AtPush == NBlocks + 3
Returned == NBlocks + 4

\* A callback that enters only when no other invocation is in flight.
MayEnter_Locked(th, t) ==
  th.pc[t] = 0 /\ \A u \in Threads \ {t} : th.pc[u] \in {0, Returned}

\* The driver may invoke the callback on thread t whatever the other
\* thread is doing: nothing in callback waits for another invocation.
MayEnter(th, t) == th.pc[t] = 0

\* The driver's registers once it has stored the frame that follows v.
StoreFrame(v) ==
  [frame |-> v.frame + 1,
   time |-> IF v.time > v.frame THEN v.time ELSE v.frame + 1]

\* The driver delivers an event on thread t: when the filter passes the
\* consumer clock is read, otherwise the invocation returns at once.  The
\* driver sends one fresh-data event of eye A per frame: the second one is
\* for the frame that follows the first one's.
Enter(t) ==
  /\ MayEnter(thr, t)
  /\ \E msg \in Msgs, sub_msg \in SubMsgs :
       IF Actionable(msg, sub_msg)
       THEN LET v == IF \E u \in Threads : thr.now[u] # Nil
                     THEN StoreFrame(vpx) ELSE vpx
            IN /\ vpx' = v
               /\ thr' = [thr EXCEPT !.pc[t] = 1,
                                     !.now[t] = local_clock(v.time)]
       ELSE /\ thr' = [thr EXCEPT !.pc[t] = Returned]
            /\ UNCHANGED vpx
  /\ UNCHANGED <<DEVICE, OUTLET, inv, snap, setup, help, buf, cfg, info>>

\* Thread t runs up to its next switch point.
Step(t) ==
  LET pc == thr.pc[t]
  IN
  /\ pc \in 1..AtPush
  /\ IF pc <= NBlocks
     THEN /\ DEVICE' = Run(DEVICE, CALLS, BlockStart(pc), BlockEnd[pc],
                           vpx.frame, {})
          /\ thr' = [thr EXCEPT
                       !.pc[t] = pc + 1,
                       !.writer = [s \in Slots |->
                          IF \E k \in BlockStart(pc)..BlockEnd[pc] :
                               CALLS[k].slot = s
                          THEN t ELSE @[s]]]
          /\ UNCHANGED <<OUTLET, snap>>
     ELSE IF pc = AtClock
     THEN /\ thr' = [thr EXCEPT
                       !.pc[t] = pc + 1,
                       !.acquisition_time[t] = DEVICE[<<"store_time", "A">>].num,
                       !.current_time[t] = vpx.time]
          /\ UNCHANGED <<DEVICE, OUTLET, snap>>
     ELSE IF pc = AtAssembly
     THEN /\ thr' = [thr EXCEPT
                       !.pc[t] = pc + 1,
                       !.data[t] = Assemble(DEVICE,
                          VPX_GetPrecisionDeltaTime(thr.current_time[t])),
                       !.from[t] = {thr.writer[<<DATA[i].var, DATA[i].key>>] :
                                      i \in {j \in 1..Len(DATA) :
                                                DATA[j].src = "DEVICE"}}]
          /\ UNCHANGED <<DEVICE, OUTLET, snap>>
     ELSE /\ OUTLET' = push_sample(OUTLET, thr.data[t],
                           Timestamp(thr.now[t],
                             VPX_GetPrecisionDeltaTime(thr.current_time[t]),
                             [num |-> thr.acquisition_time[t]]))
          /\ snap' = DEVICE
          /\ thr' = [thr EXCEPT !.pc[t] = Returned]
          /\ UNCHANGED DEVICE
  /\ UNCHANGED <<inv, vpx, setup, help, buf, cfg, info>>

ThreadInit ==
  /\ DEVICE = ViewPointDevice
  /\ OUTLET = StreamOutlet
  /\ inv = Idle
  /\ snap = ViewPointDevice
  /\ vpx = [frame |-> 1, time |-> 1]
  /\ setup = SetupComplete
  /\ help = NoHelp
  /\ buf = NoBuffer
  /\ cfg = NoConfig
  /\ thr = NoThreads
  /\ info = NoInfo

ThreadNext == \E t \in Threads : Enter(t) \/ Step(t)

ThreadSpec == ThreadInit /\ [][ThreadNext]_vars

\* Every accessor and the push return, and the thread of an invocation in
\* flight is scheduled again: each invocation takes its next step.
ThreadFairSpec == ThreadSpec /\ \A t \in Threads : WF_vars(Step(t))



\* ======================================================================
\* Properties of the callback
\* ======================================================================
\* A step that is an invocation of the callback: the driver's registers and
\* the clocks stand still, and inv' is the record of the invocation.  (An
\* invocation that changes nothing at all is a stuttering step.)
Invocation == vpx' = vpx

FreshFor(rec, eye) == rec.msg = VPX_DAT_FRESH /\ rec.sub_msg = eye

BinocularSlots == {<<"gaze_point_binocular", "AB">>, <<"velocity_binocular", "AB">>}

\* C1 -- Filtering: an invocation whose message kind is not VPX_DAT_FRESH, or
\* whose sub-message is neither eye A nor eye B, changes no Device State slot
\* and pushes nothing to the outlet, whatever events came before.
C1_Filtering ==
  [][(/\ Invocation
      /\ \/ inv'.msg # VPX_DAT_FRESH
         \/ inv'.sub_msg \notin {EYE_A, EYE_B})
     => (DEVICE' = DEVICE /\ OUTLET' = OUTLET)]_vars

\* An ignored event that arrived after Device State was filled and a sample
\* was pushed: a fresh-data event of another channel than the eyes.
C1_Witness ==
  /\ inv.outcome = "ignored"
  /\ inv.msg = VPX_DAT_FRESH
  /\ inv.sub_msg \notin {EYE_A, EYE_B}
  /\ OUTLET.n_samples >= 1
  /\ DEVICE # ViewPointDevice

C3_ReconciledTimestamp ==
  inv.outcome = "pushed"
    => OUTLET.timestamp
         = inv.now - (inv.current_time - DEVICE[<<"store_time", "A">>].num)

\* C4 -- Exception containment: no invocation ends with an exception leaving
\* the callback; every invocation returns 0.
C4_ExceptionContained ==
  inv.outcome # "none" => (inv.outcome # "raised" /\ inv.ret = 0)

\* C5 -- Every invocation that returns, returns 0: for every (msg, sub_msg,
\* p1, p2), ignored or actionable, and whatever status the accessors returned.
C5_NeutralStatus ==
  inv.outcome \in {"ignored", "pushed"} => inv.ret = 0

\* An actionable event in which an accessor returned a non-zero status.
C5_Witness ==
  /\ inv.outcome = "pushed"
  /\ inv.failed # {}
  /\ inv.ret = 0

\* C6 -- Per-eye addressing: a value held by a slot of eye A was read with
\* selector EYE_A, one held by a slot of eye B with selector EYE_B, and one
\* held by a binocular slot without selector.
C6_EyeAddressing ==
  \A s \in Slots :
    DEVICE[s].acc # "init"
      => DEVICE[s].eye = (CASE s[2] = "A" -> EYE_A
                            [] s[2] = "B" -> EYE_B
                            [] OTHER -> NoEye)

\* C7 -- The binocular slots change only in fresh-data events of eye A: an
\* event of eye B, or any ignored event, leaves them as they were.
C7_BinocularOnlyOnA ==
  [][(Invocation /\ ~FreshFor(inv', EYE_A))
     => \A s \in BinocularSlots : DEVICE'[s] = DEVICE[s]]_vars

\* A fresh-data event of eye B arrived while the driver held a newer frame than
\* the one the binocular slots were read from: they kept the older values.
C7_Witness ==
  /\ FreshFor(inv, EYE_B)
  /\ inv.frame = vpx.frame
  /\ \A s \in BinocularSlots :
       DEVICE[s].acc # "init" /\ DEVICE[s].frame < inv.frame

\* The slot behind operand d of the sample.
SlotOf(d) == <<d.var, d.key>>

ChannelMeaning ==
  [
    gaze_point_raw_A_x |-> [acc |-> "vpx_get_gaze_point", eye |-> EYE_A, comp |-> "x"],
    gaze_point_raw_A_y |-> [acc |-> "vpx_get_gaze_point", eye |-> EYE_A, comp |-> "y"],
    gaze_point_raw_B_x |-> [acc |-> "vpx_get_gaze_point", eye |-> EYE_B, comp |-> "x"],
    gaze_point_raw_B_y |-> [acc |-> "vpx_get_gaze_point", eye |-> EYE_B, comp |-> "y"],
    gaze_angle_raw_A_x |-> [acc |-> "vpx_get_gaze_angle", eye |-> EYE_A, comp |-> "x"],
    gaze_angle_raw_A_y |-> [acc |-> "vpx_get_gaze_angle", eye |-> EYE_A, comp |-> "y"],
    gaze_angle_raw_B_x |-> [acc |-> "vpx_get_gaze_angle", eye |-> EYE_B, comp |-> "x"],
    gaze_angle_raw_B_y |-> [acc |-> "vpx_get_gaze_angle", eye |-> EYE_B, comp |-> "y"],
    gaze_point_smoothed_A_x |-> [acc |-> "vpx_get_gaze_point_smoothed", eye |-> EYE_A, comp |-> "x"],
    gaze_point_smoothed_A_y |-> [acc |-> "vpx_get_gaze_point_smoothed", eye |-> EYE_A, comp |-> "y"],
    gaze_point_smoothed_B_x |-> [acc |-> "vpx_get_gaze_point_smoothed", eye |-> EYE_B, comp |-> "x"],
    gaze_point_smoothed_B_y |-> [acc |-> "vpx_get_gaze_point_smoothed", eye |-> EYE_B, comp |-> "y"],
    gaze_angle_smoothed_A_x |-> [acc |-> "vpx_get_gaze_angle_smoothed", eye |-> EYE_A, comp |-> "x"],
    gaze_angle_smoothed_A_y |-> [acc |-> "vpx_get_gaze_angle_smoothed", eye |-> EYE_A, comp |-> "y"],
    gaze_angle_smoothed_B_x |-> [acc |-> "vpx_get_gaze_angle_smoothed", eye |-> EYE_B, comp |-> "x"],
    gaze_angle_smoothed_B_y |-> [acc |-> "vpx_get_gaze_angle_smoothed", eye |-> EYE_B, comp |-> "y"],
    gaze_point_corrected_A_x |-> [acc |-> "vpx_get_gaze_point_corrected", eye |-> EYE_A, comp |-> "x"],
    gaze_point_corrected_A_y |-> [acc |-> "vpx_get_gaze_point_corrected", eye |-> EYE_A, comp |-> "y"],
    gaze_point_corrected_B_x |-> [acc |-> "vpx_get_gaze_point_corrected", eye |-> EYE_B, comp |-> "x"],
    gaze_point_corrected_B_y |-> [acc |-> "vpx_get_gaze_point_corrected", eye |-> EYE_B, comp |-> "y"],
    gaze_angle_corrected_A_x |-> [acc |-> "vpx_get_gaze_angle_corrected", eye |-> EYE_A, comp |-> "x"],
    gaze_angle_corrected_A_y |-> [acc |-> "vpx_get_gaze_angle_corrected", eye |-> EYE_A, comp |-> "y"],
    gaze_angle_corrected_B_x |-> [acc |-> "vpx_get_gaze_angle_corrected", eye |-> EYE_B, comp |-> "x"],
    gaze_angle_corrected_B_y |-> [acc |-> "vpx_get_gaze_angle_corrected", eye |-> EYE_B, comp |-> "y"],
    gaze_point_binocular_x |-> [acc |-> "vpx_get_gaze_binocular", eye |-> NoEye, comp |-> "x"],
    gaze_point_binocular_y |-> [acc |-> "vpx_get_gaze_binocular", eye |-> NoEye, comp |-> "y"],
    total_velocity_A |-> [acc |-> "vpx_get_total_velocity", eye |-> EYE_A, comp |-> "value"],
    total_velocity_B |-> [acc |-> "vpx_get_total_velocity", eye |-> EYE_B, comp |-> "value"],
    component_velocity_A_x |-> [acc |-> "vpx_get_component_velocity", eye |-> EYE_A, comp |-> "x"],
    component_velocity_A_y |-> [acc |-> "vpx_get_component_velocity", eye |-> EYE_A, comp |-> "y"],
    component_velocity_B_x |-> [acc |-> "vpx_get_component_velocity", eye |-> EYE_B, comp |-> "x"],
    component_velocity_B_y |-> [acc |-> "vpx_get_component_velocity", eye |-> EYE_B, comp |-> "y"],
    velocity_binocular |-> [acc |-> "vpx_get_velocity_binocular", eye |-> NoEye, comp |-> "value"],
    pupil_size_A_x |-> [acc |-> "vpx_get_pupil_size", eye |-> EYE_A, comp |-> "x"],
    pupil_size_A_y |-> [acc |-> "vpx_get_pupil_size", eye |-> EYE_A, comp |-> "y"],
    pupil_size_B_x |-> [acc |-> "vpx_get_pupil_size", eye |-> EYE_B, comp |-> "x"],
    pupil_size_B_y |-> [acc |-> "vpx_get_pupil_size", eye |-> EYE_B, comp |-> "y"],
    pupil_aspect_ratio_A |-> [acc |-> "vpx_get_pupil_aspect_ratio", eye |-> EYE_A, comp |-> "value"],
    pupil_aspect_ratio_B |-> [acc |-> "vpx_get_pupil_aspect_ratio", eye |-> EYE_B, comp |-> "value"],
    pupil_angle_A |-> [acc |-> "vpx_get_pupil_angle", eye |-> EYE_A, comp |-> "value"],
    pupil_angle_B |-> [acc |-> "vpx_get_pupil_angle", eye |-> EYE_B, comp |-> "value"],
    pupil_diameter_A |-> [acc |-> "vpx_get_pupil_diameter", eye |-> EYE_A, comp |-> "value"],
    pupil_diameter_B |-> [acc |-> "vpx_get_pupil_diameter", eye |-> EYE_B, comp |-> "value"],
    pupil_point_A_x |-> [acc |-> "vpx_get_pupil_point", eye |-> EYE_A, comp |-> "x"],
    pupil_point_A_y |-> [acc |-> "vpx_get_pupil_point", eye |-> EYE_A, comp |-> "y"],
    pupil_point_B_x |-> [acc |-> "vpx_get_pupil_point", eye |-> EYE_B, comp |-> "x"],
    pupil_point_B_y |-> [acc |-> "vpx_get_pupil_point", eye |-> EYE_B, comp |-> "y"],
    pupil_centroid_A_x |-> [acc |-> "vpx_get_pupil_centroid", eye |-> EYE_A, comp |-> "x"],
    pupil_centroid_A_y |-> [acc |-> "vpx_get_pupil_centroid", eye |-> EYE_A, comp |-> "y"],
    pupil_centroid_B_x |-> [acc |-> "vpx_get_pupil_centroid", eye |-> EYE_B, comp |-> "x"],
    pupil_centroid_B_y |-> [acc |-> "vpx_get_pupil_centroid", eye |-> EYE_B, comp |-> "y"],
    diff_vector_A_x |-> [acc |-> "vpx_get_diff_vector", eye |-> EYE_A, comp |-> "x"],
    diff_vector_A_y |-> [acc |-> "vpx_get_diff_vector", eye |-> EYE_A, comp |-> "y"],
    diff_vector_B_x |-> [acc |-> "vpx_get_diff_vector", eye |-> EYE_B, comp |-> "x"],
    diff_vector_B_y |-> [acc |-> "vpx_get_diff_vector", eye |-> EYE_B, comp |-> "y"],
    glint_point_A_x |-> [acc |-> "vpx_get_glint_point", eye |-> EYE_A, comp |-> "x"],
    glint_point_A_y |-> [acc |-> "vpx_get_glint_point", eye |-> EYE_A, comp |-> "y"],
    glint_point_B_x |-> [acc |-> "vpx_get_glint_point", eye |-> EYE_B, comp |-> "x"],
    glint_point_B_y |-> [acc |-> "vpx_get_glint_point", eye |-> EYE_B, comp |-> "y"],
    glint_centroid_A_x |-> [acc |-> "vpx_get_glint_centroid", eye |-> EYE_A, comp |-> "x"],
    glint_centroid_A_y |-> [acc |-> "vpx_get_glint_centroid", eye |-> EYE_A, comp |-> "y"],
    glint_centroid_B_x |-> [acc |-> "vpx_get_glint_centroid", eye |-> EYE_B, comp |-> "x"],
    glint_centroid_B_y |-> [acc |-> "vpx_get_glint_centroid", eye |-> EYE_B, comp |-> "y"],
    data_quality_A |-> [acc |-> "vpx_get_data_quality", eye |-> EYE_A, comp |-> "value"],
    data_quality_B |-> [acc |-> "vpx_get_data_quality", eye |-> EYE_B, comp |-> "value"],
    data_time_A |-> [acc |-> "vpx_get_data_time", eye |-> EYE_A, comp |-> "value"],
    data_time_B |-> [acc |-> "vpx_get_data_time", eye |-> EYE_B, comp |-> "value"],
    data_delta_time_A |-> [acc |-> "vpx_get_data_delta_time", eye |-> EYE_A, comp |-> "value"],
    data_delta_time_B |-> [acc |-> "vpx_get_data_delta_time", eye |-> EYE_B, comp |-> "value"],
    store_time_A |-> [acc |-> "vpx_get_store_time", eye |-> EYE_A, comp |-> "value"],
    store_time_B |-> [acc |-> "vpx_get_store_time", eye |-> EYE_B, comp |-> "value"],
    store_delta_time_A |-> [acc |-> "vpx_get_store_delta_time", eye |-> EYE_A, comp |-> "value"],
    store_delta_time_B |-> [acc |-> "vpx_get_store_delta_time", eye |-> EYE_B, comp |-> "value"],
    current_time |-> [acc |-> "VPX_GetPrecisionDeltaTime", eye |-> NoEye, comp |-> "value"]
  ]

\* C9 -- Sample layout: a pushed sample has len(CH_NAMES) fields, and field i
\* is the component, of the measurement, of the eye that channel name i
\* announces.
C9_Layout ==
  inv.outcome = "pushed"
    => /\ Len(OUTLET.data) = Len(CH_NAMES)
       /\ \A i \in 1..Len(CH_NAMES) :
            LET m == ChannelMeaning[CH_NAMES[i]]
                x == OUTLET.data[i]
            IN /\ x.comp = m.comp
               /\ x.reg.acc # "init" => (x.reg.acc = m.acc /\ x.reg.eye = m.eye)

\* The fields of a sample that are read from Device State.
DeviceFields == {i \in 1..Len(DATA) : DATA[i].src = "DEVICE"}

\* C10 (as stated) -- two pushes made from the same Device State snapshot
\* carry the same sample, field for field.
C10_SameSnapshotSameSample ==
  [][(/\ OUTLET'.n_samples = OUTLET.n_samples + 1
      /\ OUTLET.n_samples >= 1
      /\ snap' = snap)
     => OUTLET'.data = OUTLET.data]_vars

\* C10 (amended) -- two pushes made from the same Device State snapshot carry
\* the same value in every field read from Device State; the last field,
\* current_time, is the device clock read in the invocation.
C10_SameSnapshotSameDeviceFields ==
  [][(/\ OUTLET'.n_samples = OUTLET.n_samples + 1
      /\ OUTLET.n_samples >= 1
      /\ snap' = snap)
     => /\ \A i \in DeviceFields : OUTLET'.data[i] = OUTLET.data[i]
        /\ \A i \in (1..Len(DATA)) \ DeviceFields :
             OUTLET'.data[i].reg = VPX_GetPrecisionDeltaTime(inv'.current_time)
       ]_vars

\* Two samples were pushed from the same snapshot at different device times.
C10_Witness ==
  /\ OUTLET.n_samples = 2
  /\ inv.outcome = "pushed"
  /\ snap = DEVICE
  /\ \A s \in Slots \ {<<"pupil_oval_rect", "A">>, <<"pupil_oval_rect", "B">>} :
       DEVICE[s].acc # "init" /\ DEVICE[s].frame = 1
  /\ inv.current_time = 2

\* C11 -- Monotone timestamps: when a sample is pushed after an earlier one
\* and the device event time (the store time of eye A) it carries is not
\* less than that of the earlier sample, the timestamp handed to the outlet
\* is not less than the earlier timestamp.
C11_MonotoneTimestamps ==
  [][(/\ Invocation
      /\ inv'.outcome = "pushed"
      /\ OUTLET.n_samples >= 1
      /\ snap'[<<"store_time", "A">>].num >= snap[<<"store_time", "A">>].num)
     => OUTLET'.timestamp >= OUTLET.timestamp]_vars

\* A second sample was pushed, from a later frame than the first frame.
C11_Witness ==
  /\ OUTLET.n_samples >= 2
  /\ inv.outcome = "pushed"
  /\ snap[<<"store_time", "A">>].num > 1


\* ======================================================================
\* Properties of stream setup
\* ======================================================================
\* C12 -- Precision timer unavailable: once the DLL has answered that the
\* precision timer is not available, setup has stopped with RuntimeError; no
\* accessor is bound, the outlet does not exist, the callback is not
\* registered and is never invoked, and the timer was asked once only.
C12_TimerUnavailable ==
  (setup.queries >= 1 /\ ~setup.dll.timer)
    => /\ setup.error = "RuntimeError"
       /\ setup.bound = {}
       /\ OUTLET = Undefined
       /\ setup.registered = 0
       /\ inv = Idle
       /\ setup.queries = 1

C12_Witness ==
  /\ setup.queries = 1
  /\ ~setup.dll.timer
  /\ setup.VPX
  /\ setup.error = "RuntimeError"

\* C13 -- Fatal setup errors: with the library path or the sampling rate
\* unset, setup stops with RuntimeError at its first statement and never
\* attempts to load the library; when the library fails to load, setup stops
\* with RuntimeError after that one attempt.  In both cases the callback is
\* not registered and no outlet exists.
C13_FatalSetupErrors ==
  /\ (setup.LIB_PATH = None \/ setup.SAMPLING_RATE = None)
       => /\ setup.loads = 0
          /\ setup.pc = 1
          /\ setup.error \in {"none", "RuntimeError"}
          /\ setup.registered = 0
          /\ OUTLET = Undefined
  /\ (setup.loads >= 1 /\ ~setup.dll.loads)
       => /\ setup.loads = 1
          /\ setup.error = "RuntimeError"
          /\ ~setup.VPX
          /\ setup.registered = 0
          /\ OUTLET = Undefined

\* Setup was stopped by an unset sampling rate alone.
C13_Witness ==
  /\ setup.SAMPLING_RATE = None
  /\ setup.LIB_PATH # None
  /\ setup.error = "RuntimeError"

\* C14 -- Setup ordering: the callback is registered at most once, and when
\* it is registered, and whenever it has been invoked, every accessor is
\* bound and Device State, the stream info and the outlet exist.
C14_SetupOrdering ==
  /\ setup.registered <= 1
  /\ (setup.registered = 1 \/ inv.outcome # "none")
       => /\ setup.registered = 1
          /\ setup.bound = AllAccessors
          /\ DEVICE # Undefined
          /\ setup.sinfo
          /\ OUTLET # Undefined

\* The registered callback was invoked and pushed a sample.
C14_Witness ==
  /\ setup.registered = 1
  /\ setup.queries = 1
  /\ inv.outcome = "pushed"
  /\ OUTLET.n_samples = 1


\* ======================================================================
\* Properties of the callback: accessor statuses
\* ======================================================================
\* C15 -- Status observability: an actionable event in which some accessor
\* returned a non-zero status leaves the program in a state that differs from
\* the state the same event leaves when every accessor succeeds (a status
\* that is captured anywhere makes the two differ).
C15_StatusObservable ==
  [][(/\ Invocation
      /\ inv'.outcome = "pushed"
      /\ inv'.failed # {})
     => \/ inv'.ret # 0
        \/ DEVICE' # Collect(DEVICE, NCalls, vpx.frame, {})]_vars

\* C16 -- Lenient accessor failures: an actionable event in which accessors
\* returned a non-zero status and nothing raised still hands every slot to
\* its accessor, refreshes the slot of every accessor that succeeded, pushes
\* exactly one sample and returns 0.
C16_LenientFailures ==
  [][(/\ Invocation
      /\ FreshFor(inv', EYE_A)
      /\ inv'.failed # {}
      /\ inv'.outcome # "raised")
     => /\ inv'.outcome = "pushed"
        /\ inv'.touched = Targets(NCalls)
        /\ \A k \in (1..NCalls) \ inv'.failed :
             DEVICE'[CALLS[k].slot]
               = Register(CALLS[k].acc, CALLS[k].sel, inv'.frame)
        /\ OUTLET'.n_samples = OUTLET.n_samples + 1
        /\ inv'.ret = 0]_vars

\* The binocular gaze accessor failed: its slot is stale, the slot of the
\* last accessor of the event is fresh, and the sample was pushed.
C16_Witness ==
  /\ inv.outcome = "pushed"
  /\ inv.failed = {13}
  /\ DEVICE[<<"gaze_point_binocular", "AB">>].frame < inv.frame
  /\ DEVICE[<<"store_delta_time", "B">>].frame = inv.frame
  /\ OUTLET.n_samples >= 1


\* ======================================================================
\* Properties of the dispatch helpers
\* ======================================================================
\* The families of the helpers: the variants and the eye selectors each one
\* documents.  The binocular selection is a variant of its own, for which
\* the helper disregards the name it is given.
SupportedNames ==
  [get_gaze_point |-> {"raw", "smoothed", "corrected"},
   get_gaze_angle |-> {"raw", "smoothed", "corrected"},
   get_gaze_velocity |-> {"total", "component"},
   get_pupil_property |-> {"size", "aspect_ratio", "oval_rect", "angle",
                           "diameter", "point", "centroid"}]

SupportedEyes ==
  [get_gaze_point |-> {"A", "B", "AB"},
   get_gaze_angle |-> {"A", "B"},
   get_gaze_velocity |-> {"A", "B", "AB"},
   get_pupil_property |-> {"A", "B"}]

Supported(fn, eye, name) ==
  eye \in SupportedEyes[fn] /\ (eye = "AB" \/ name \in SupportedNames[fn])

Variant(eye, name) == IF eye = "AB" THEN "binocular" ELSE name

\* What each accessor reads, by the DLL function it is bound to, and the
\* Device State variable of that family and variant.
AccessorMeaning ==
  [vpx_get_gaze_point |->
     [fn |-> "get_gaze_point", variant |-> "raw", var |-> "gaze_point"],
   vpx_get_gaze_point_smoothed |->
     [fn |-> "get_gaze_point", variant |-> "smoothed",
      var |-> "gaze_point_smoothed"],
   vpx_get_gaze_point_corrected |->
     [fn |-> "get_gaze_point", variant |-> "corrected",
      var |-> "gaze_point_corrected"],
   vpx_get_gaze_binocular |->
     [fn |-> "get_gaze_point", variant |-> "binocular",
      var |-> "gaze_point_binocular"],
   vpx_get_gaze_angle |->
     [fn |-> "get_gaze_angle", variant |-> "raw", var |-> "gaze_angle"],
   vpx_get_gaze_angle_smoothed |->
     [fn |-> "get_gaze_angle", variant |-> "smoothed",
      var |-> "gaze_angle_smoothed"],
   vpx_get_gaze_angle_corrected |->
     [fn |-> "get_gaze_angle", variant |-> "corrected",
      var |-> "gaze_angle_corrected"],
   vpx_get_total_velocity |->
     [fn |-> "get_gaze_velocity", variant |-> "total",
      var |-> "total_velocity"],
   vpx_get_component_velocity |->
     [fn |-> "get_gaze_velocity", variant |-> "component",
      var |-> "component_velocity"],
   vpx_get_velocity_binocular |->
     [fn |-> "get_gaze_velocity", variant |-> "binocular",
      var |-> "velocity_binocular"],
   vpx_get_pupil_size |->
     [fn |-> "get_pupil_property", variant |-> "size", var |-> "pupil_size"],
   vpx_get_pupil_aspect_ratio |->
     [fn |-> "get_pupil_property", variant |-> "aspect_ratio",
      var |-> "pupil_aspect_ratio"],
   vpx_get_pupil_oval_rect |->
     [fn |-> "get_pupil_property", variant |-> "oval_rect",
      var |-> "pupil_oval_rect"],
   vpx_get_pupil_angle |->
     [fn |-> "get_pupil_property", variant |-> "angle", var |-> "pupil_angle"],
   vpx_get_pupil_diameter |->
     [fn |-> "get_pupil_property", variant |-> "diameter",
      var |-> "pupil_diameter"],
   vpx_get_pupil_point |->
     [fn |-> "get_pupil_property", variant |-> "point", var |-> "pupil_point"],
   vpx_get_pupil_centroid |->
     [fn |-> "get_pupil_property", variant |-> "centroid",
      var |-> "pupil_centroid"]]

\* C17 -- Dispatch uniqueness: a helper called with a supported eye selector
\* and variant selects one accessor and one slot; both are those of the
\* family and variant asked for, the slot is that of the eye asked for, and
\* no supported call for another family or variant selects that accessor or
\* a slot of that variable.
C17_DispatchUnique ==
  (help.fn # "none" /\ Supported(help.fn, help.eye, help.arg))
    => /\ help.res.err = "none"
       /\ help.res.acc \in DOMAIN AccessorMeaning
       /\ AccessorMeaning[help.res.acc].fn = help.fn
       /\ AccessorMeaning[help.res.acc].variant = Variant(help.eye, help.arg)
       /\ help.res.slot = <<AccessorMeaning[help.res.acc].var, help.eye>>
       /\ help.res.slot \in Slots
       /\ \A fn \in Helpers, eye \in EyeArgs, name \in NameArgs :
            (/\ Supported(fn, eye, name)
             /\ <<fn, Variant(eye, name)>>
                  # <<help.fn, Variant(help.eye, help.arg)>>)
              => /\ Dispatch(fn, eye, name).acc # help.res.acc
                 /\ Dispatch(fn, eye, name).slot[1] # help.res.slot[1]

\* The centroid of the pupil of eye B was asked for and its slot filled.
C17_Witness ==
  /\ help.fn = "get_pupil_property"
  /\ help.eye = "B"
  /\ help.arg = "centroid"
  /\ help.res.acc = "vpx_get_pupil_centroid"
  /\ DEVICE[<<"pupil_centroid", "B">>]
       = Register("vpx_get_pupil_centroid", EYE_B, vpx.frame)

\* C18 -- Unknown variant: a helper called for eye A or B with a name that
\* is not one of its variants raises ValueError naming that name, calls no
\* accessor and leaves every Device State slot as it was.
C18_UnknownVariant ==
  [][(/\ help'.fn # "none"
      /\ help.fn = "none"
      /\ help'.eye \in {"A", "B"}
      /\ help'.arg \notin SupportedNames[help'.fn])
     => /\ help'.res.err = "ValueError"
        /\ help'.res.arg = help'.arg
        /\ help'.res.acc = ""
        /\ DEVICE' = DEVICE]_vars

\* The velocity of eye B was asked for with a gaze-point variant, on a
\* Device State that a frame had filled.
C18_Witness ==
  /\ help.fn = "get_gaze_velocity"
  /\ help.eye = "B"
  /\ help.arg = "raw"
  /\ help.res.err = "ValueError"
  /\ DEVICE # ViewPointDevice

\* C19 -- Invalid eye selector: a helper called with an eye selector it does
\* not support raises ValueError, the error of an unknown variant, and calls
\* no accessor.
C19_InvalidEye ==
  (help.fn # "none" /\ help.eye \notin SupportedEyes[help.fn])
    => /\ help.res.err = "ValueError"
       /\ help.res.acc = ""


\* ======================================================================
\* Properties of Buffer
\* ======================================================================
\* C20 -- Buffer invariant: after any sequence of add_sample and reset
\* calls, those that raised included, the fill index is at least 0 and at
\* most bufsize, and is_full holds exactly when the fill index is bufsize.
C20_BufferInvariant ==
  buf.made
    => /\ 0 <= buf._idx
       /\ buf._idx <= Len(buf._buffer)
       /\ is_full(buf) <=> (buf._idx = Len(buf._buffer))

\* An add_sample call on a full buffer of at least one row has raised.
C20_Witness ==
  /\ buf.made
  /\ Len(buf._buffer) >= 1
  /\ buf.op = "add_sample"
  /\ buf.err = "IndexError"
  /\ buf._idx = Len(buf._buffer)

\* C21 -- Filling: a Buffer of capacity N >= 1 is full exactly when N
\* add_sample calls have returned since it was made or last reset (so it is
\* not full at first nor after fewer calls), and a reset returns without
\* raising and leaves it not full.
C21_FullAfterN ==
  (buf.made /\ Len(buf._buffer) >= 1)
    => /\ buf.added <= Len(buf._buffer)
       /\ is_full(buf) <=> (buf.added = Len(buf._buffer))
       /\ buf.op = "reset" => (buf.err = "none" /\ ~is_full(buf))

\* A buffer of two rows was filled and reset, and one sample was added
\* since: its second row is a stale one and it is not full.
C21_Witness ==
  /\ buf.made
  /\ Len(buf._buffer) = 2
  /\ buf.op = "add_sample"
  /\ buf.added = 1
  /\ buf._buffer[2][1] # 0
  /\ ~is_full(buf)

\* C22 -- add_sample: a call on a buffer that is not full and that returns
\* stores the sample in the row at the fill index, advances the fill index
\* by one and leaves the other rows as they were; a call on a full buffer
\* raises and leaves the fill index and every row as they were.
C22_AddSample ==
  [][(buf'.op = "add_sample" /\ buf' # buf /\ buf.made)
     => IF is_full(buf)
        THEN /\ buf'.err # "none"
             /\ buf'._idx = buf._idx
             /\ buf'._buffer = buf._buffer
        ELSE \/ /\ buf'.err = "ValueError"
                /\ buf'._idx = buf._idx
                /\ buf'._buffer = buf._buffer
             \/ /\ buf'.err = "none"
                /\ buf'._idx = buf._idx + 1
                /\ buf'._buffer[buf._idx + 1]
                     \in {Broadcast(buf, data) : data \in Samples}
                /\ \A r \in 1..Len(buf._buffer) :
                     r # buf._idx + 1 => buf'._buffer[r] = buf._buffer[r]
                /\ Len(buf'._buffer) = Len(buf._buffer)]_vars

\* A call on a full buffer of two rows that hold different samples raised.
C22_Witness ==
  /\ buf.made
  /\ Len(buf._buffer) = 2
  /\ buf._idx = 2
  /\ buf._buffer[1] # buf._buffer[2]
  /\ buf.op = "add_sample"
  /\ buf.err = "IndexError"

\* C23 -- reset: a reset sets the fill index to 0 and changes nothing else:
\* every row keeps its contents, and the number of rows and of channels is
\* the same.
C23_ResetKeepsRows ==
  [][(buf'.op = "reset" /\ buf' # buf /\ buf.made)
     => /\ buf'._idx = 0
        /\ buf'.err = "none"
        /\ buf'._buffer = buf._buffer
        /\ buf'.n_channels = buf.n_channels]_vars

\* A buffer whose rows were all written has been reset: the rows are stale.
C23_Witness ==
  /\ buf.made
  /\ buf.op = "reset"
  /\ buf._idx = 0
  /\ Len(buf._buffer) >= 1
  /\ \A r \in 1..Len(buf._buffer) : buf._buffer[r][1] # 0


\* ======================================================================
\* Properties of the configuration file
\* ======================================================================
\* What the text of a file holds: a header of the 'config' section, a line
\* that sets key, a line that sets sfreq to a number.
HasConfigSection(file) ==
  \E i \in 1..Len(file.lines) : Uncomment(file.lines[i]) = <<"[config]">>

KeyOf(line) ==
  Strip(SubSeq(Uncomment(line), 1, Delimiter(Uncomment(line)) - 1))

ValueOf(line) ==
  Strip(SubSeq(Uncomment(line), Delimiter(Uncomment(line)) + 1,
               Len(Uncomment(line))))

HasKey(file, key) ==
  \E i \in 1..Len(file.lines) :
    Delimiter(Uncomment(file.lines[i])) > 0 /\ KeyOf(file.lines[i]) = <<key>>

SfreqIsNumber(file) ==
  \E i \in 1..Len(file.lines) :
    /\ Delimiter(Uncomment(file.lines[i])) > 0
    /\ KeyOf(file.lines[i]) = <<"sfreq">>
    /\ ValueOf(file.lines[i]) \in {<<"60">>, <<"60.0">>, <<"101">>, <<"101.0">>}

Malformed(file) ==
  \/ ~HasConfigSection(file)
  \/ ~HasKey(file, "VPX_InterApp_64.dll")
  \/ ~HasKey(file, "sfreq")
  \/ ~SfreqIsNumber(file)

\* C24 -- All or nothing: load_config of a file that exists returns, with
\* both values set or both None; when the file lacks the 'config' section,
\* one of the two keys, or a number for sfreq, both are None and the warning
\* is logged.
C24_AllOrNothing ==
  (cfg.op = "load" /\ cfg.file.exists)
    => /\ cfg.res.err = "none"
       /\ cfg.res.lib_path.some <=> cfg.res.sfreq.some
       /\ Malformed(cfg.file)
            => /\ ~cfg.res.lib_path.some
               /\ ~cfg.res.sfreq.some
               /\ cfg.res.warned

\* C25 -- Missing file: load_config of a file that does not exist logs a
\* warning and returns (None, None).
C25_MissingFileWarns ==
  (cfg.op = "load" /\ ~cfg.file.exists)
    => /\ cfg.res.err = "none"
       /\ ~cfg.res.lib_path.some
       /\ ~cfg.res.sfreq.some
       /\ cfg.res.warned

\* C26 -- Round trip: write_config(p, s, fname) succeeds for every path and
\* number, and load_config(fname) right after it returns (str(p), float(s));
\* the file with the lines 'VPX_InterApp_64.dll = /path/to/lib' and
\* 'sfreq = 60' in its 'config' section loads to ('/path/to/lib', 60.0).
C26_RoundTrip ==
  [][/\ cfg'.op = "write" => cfg'.w.err = "none"
     /\ (cfg.op = "write" /\ cfg'.op = "load")
          => /\ cfg'.res.err = "none"
             /\ cfg'.res.lib_path = Some(cfg.w.path)
             /\ cfg'.res.sfreq = Some(cfg.w.sfreq.val)
     /\ (/\ cfg'.op = "load"
         /\ cfg.file = TextFile(<< <<"[config]">>, DllLine, SfreqLine >>))
          => /\ cfg'.res.lib_path = Some(<<"/path/to/lib">>)
             /\ cfg'.res.sfreq = Some(60)]_vars


\* ======================================================================
\* Properties of the callback: clocks, emissions and snapshots
\* ======================================================================
\* C27 -- Back-to-back clock reads: in an invocation that has read the
\* consumer clock and not (yet) the device clock, no slot has been handed to
\* an accessor: nothing happens between the two reads.
C27_BackToBackClocks ==
  (inv.now # Nil /\ inv.current_time = Nil) => inv.touched = {}

CallFor(s) == CHOOSE k \in 1..NCalls : CALLS[k].slot = s

\* C30 (as stated) -- every field of a pushed sample that is read from
\* Device State holds the value that was written to its slot during the
\* invocation that pushed it.
C30_FreshSnapshot ==
  [][(Invocation /\ inv'.outcome = "pushed")
     => \A i \in DeviceFields :
          OUTLET'.data[i].reg
            = Register(CALLS[CallFor(SlotOf(DATA[i]))].acc,
                       CALLS[CallFor(SlotOf(DATA[i]))].sel, inv'.frame)]_vars

\* C30 (amended) -- a field of a pushed sample that is read from Device
\* State holds the value written to its slot during the invocation that
\* pushed it when the accessor of the slot returned status 0, and the value
\* the slot held before the invocation when the accessor returned a
\* non-zero status.
C30_FreshUnlessFailed ==
  [][(Invocation /\ inv'.outcome = "pushed")
     => \A i \in DeviceFields :
          LET k == CallFor(SlotOf(DATA[i]))
          IN OUTLET'.data[i].reg
               = IF k \in inv'.failed THEN DEVICE[SlotOf(DATA[i])]
                 ELSE Register(CALLS[k].acc, CALLS[k].sel, inv'.frame)]_vars

\* A sample of the second frame was pushed with a field that an earlier
\* invocation had read from the first frame.
C30_Witness ==
  /\ inv.outcome = "pushed"
  /\ inv.failed # {}
  /\ \E i \in DeviceFields :
       /\ CallFor(SlotOf(DATA[i])) \in inv.failed
       /\ OUTLET.data[i].reg.acc # "init"
       /\ OUTLET.data[i].reg.frame < inv.frame


\* ======================================================================
\* Properties of overlapping invocations, of the callback's control flow and
\* of the stream description
\* ======================================================================
\* C31 -- No mutual exclusion on Device State: the driver can invoke the
\* callback on a thread whatever the position of the invocation on the
\* other thread, and an invocation in flight can always take its next step:
\* nothing makes one invocation wait for the other.  (The mixed sample this
\* allows is the state C31_Witness.)
C31_NoMutualExclusion ==
  \A t \in Threads :
    /\ thr.pc[t] = 0 => ENABLED Enter(t)
    /\ thr.pc[t] \in 1..AtPush => ENABLED Step(t)

\* A sample was pushed whose fields were read from slots written by the two
\* invocations: one invocation overwrote part of Device State between the
\* other's collect phase and its assembly.
C31_Witness ==
  \E t \in Threads :
    /\ thr.pc[t] = Returned
    /\ thr.from[t] = Threads
    /\ OUTLET.data = thr.data[t]
    /\ \E i, j \in DeviceFields :
         OUTLET.data[i].reg.frame # OUTLET.data[j].reg.frame


\* The locals of the invocation on thread t.
Locals(th, t) ==
  <<th.now[t], th.acquisition_time[t], th.current_time[t], th.data[t],
    th.from[t]>>

\* C32 -- Run to completion: every invocation that has entered returns; an
\* ignored event returns at the filter with nothing read or written; an
\* actionable event steps through the collect phase (after which every slot
\* has been written by an accessor call), then reads the device clock, then
\* assembles the sample from Device State, then pushes that sample, then
\* returns; an invocation works on Device State, the outlet and its own
\* locals only, and leaves the locals of the other invocation alone.
C32_RunToCompletion ==
  /\ \A t \in Threads : (thr.pc[t] \in 1..AtPush) ~> (thr.pc[t] = Returned)
  /\ [][\A t \in Threads :
          thr'.pc[t] # thr.pc[t]
            => /\ \A u \in Threads \ {t} : Locals(thr', u) = Locals(thr, u)
               /\ IF thr.pc[t] = 0
                  THEN /\ thr'.pc[t] \in {1, Returned}
                       /\ thr'.pc[t] = Returned => Locals(thr', t) = Locals(thr, t)
                       /\ thr'.pc[t] = 1 => thr'.now[t] = local_clock(vpx'.time)
                       /\ UNCHANGED <<DEVICE, OUTLET>>
                  ELSE /\ thr'.pc[t] = thr.pc[t] + 1
                       /\ vpx' = vpx
                       /\ DEVICE' # DEVICE => thr.pc[t] <= NBlocks
                       /\ thr.pc[t] <= NBlocks => OUTLET' = OUTLET
                       /\ thr.pc[t] = AtClock
                            => /\ \A s \in Targets(NCalls) : thr.writer[s] # 0
                               /\ thr'.current_time[t] = vpx.time
                               /\ UNCHANGED <<DEVICE, OUTLET>>
                       /\ thr.pc[t] = AtAssembly
                            => /\ thr'.data[t] = Assemble(DEVICE,
                                    VPX_GetPrecisionDeltaTime(thr.current_time[t]))
                               /\ UNCHANGED <<DEVICE, OUTLET>>
                       /\ thr.pc[t] = AtPush
                            => /\ OUTLET'.n_samples = OUTLET.n_samples + 1
                               /\ OUTLET'.data = thr.data[t]
                               /\ DEVICE' = DEVICE]_vars

\* Both invocations have returned: one was ignored at the filter, the other
\* pushed its sample.
C32_Witness ==
  /\ \A t \in Threads : thr.pc[t] = Returned
  /\ \E t \in Threads : thr.data[t] = <<>> /\ thr.now[t] = Nil
  /\ OUTLET.n_samples = 1


\* C33 -- Channel names reach the sink: once the module body has made
\* _SINFO, the description handed to the outlet carries the names of
\* _CH_NAMES, one per channel and in the order of the sample.
C33_ChannelNamesInDescription ==
  setup.sinfo
    => LET ch_names == get_channel_names(SINFO(setup.SAMPLING_RATE))
       IN /\ ~ch_names.none
          /\ ch_names.list = CH_NAMES


\* C34 -- Binocular selection ignores the variant: get_gaze_point and
\* get_gaze_velocity called with eye 'AB' call the one binocular accessor on
\* the binocular slot, without an eye selector, whatever the processing or
\* property_name argument is (a supported name, None, '' or an unsupported
\* name): no ValueError is raised, and no other slot is written.
C34_BinocularIgnoresVariant ==
  [][(help'.fn \in {"get_gaze_point", "get_gaze_velocity"} /\ help'.eye = "AB"
        /\ help.fn = "none")
     => LET acc == IF help'.fn = "get_gaze_point" THEN "vpx_get_gaze_binocular"
                   ELSE "vpx_get_velocity_binocular"
            slot == IF help'.fn = "get_gaze_point"
                    THEN <<"gaze_point_binocular", "AB">>
                    ELSE <<"velocity_binocular", "AB">>
        IN /\ help'.res = Call(acc, NoEye, slot)
           /\ \A s \in Slots \ {slot} : DEVICE'[s] = DEVICE[s]
           /\ ~help'.failed => DEVICE'[slot] = Register(acc, NoEye, vpx.frame)]_vars

\* A helper was called for the binocular selection with None, '' or a name
\* it does not know, and filled its binocular slot.
C34_Witness ==
  /\ help.eye = "AB"
  /\ help.fn \in {"get_gaze_point", "get_gaze_velocity"}
  /\ help.arg \in {"None", "", "binocular"}
  /\ ~help.failed
  /\ help.res.err = "none"
  /\ DEVICE[help.res.slot] = Register(help.res.acc, NoEye, vpx.frame)
  /\ DEVICE[help.res.slot].acc \in
       {"vpx_get_gaze_binocular", "vpx_get_velocity_binocular"}


\* The pair load_config() returns for the file, when it returns one.
Loaded(file) ==
  [LIB_PATH |-> load_config(file).lib_path,
   SAMPLING_RATE |-> load_config(file).sfreq]

\* C35 -- set_config is atomic on failure: a call with a sampling rate that
\* is not a number, a path without a file, or a library that does not load,
\* raises and leaves the in-memory pair and the configuration file as they
\* were; after a call that returns, load_config() returns the in-memory
\* pair.
C35_SetConfigAtomic ==
  [][cfg'.op = "set"
     => /\ (\/ cfg'.s.sfreq.type \notin {"int", "float"}
            \/ ~cfg'.s.exists
            \/ ~cfg'.s.loads)
             => /\ cfg'.s.err # "none"
                /\ cfg'.mem = cfg.mem
                /\ cfg'.file = cfg.file
        /\ cfg'.s.err = "none"
             => /\ load_config(cfg'.file).err = "none"
                /\ Loaded(cfg'.file) = cfg'.mem]_vars


\* The value of kind name that channel i of the description holds, "" when
\* the description has no such channel or the channel no such value.
ValueAt(self, name, i) ==
  IF i <= Len(self.desc.channel)
  THEN Value(self.desc.channel[i][MAPPING_LSL[name]])
  ELSE ""

\* C36 -- Channel-info round-trip: a getter called right after the setter of
\* the same kind returned gives back the list that was set (for types and
\* units, the str repeated for each channel), whatever the description held
\* before; and a setter that returns leaves the values of the other two
\* kinds of each of the n channels as they were.
C36_RoundTrip ==
  [][/\ (info.op = "set" /\ info.err = "none"
           /\ info'.op = "get" /\ info'.kind = info.kind)
          => /\ ~info'.res.none
             /\ info'.res.list = Broadcast_str(info, info.arg).items
     /\ (info'.op = "set" /\ info'.err = "none")
          => \A name \in Kinds \ {info'.kind} :
               \A i \in 1..info.n_channels :
                 ValueAt(info', name, i) = ValueAt(info, name, i)]_vars

\* C37 -- Channel-element count: after a setter returned, the description
\* holds a 'channels' element with exactly n_channels 'channel' elements,
\* whether it held fewer or more before; a setter given a list whose length
\* is not n_channels raises ValueError, and a setter that raises leaves the
\* description as it was.
C37_ChannelCount ==
  [][info'.op = "set"
     => /\ info'.err = "none"
             => /\ info'.desc.channels
                /\ Len(info'.desc.channel) = info.n_channels
        /\ (info'.arg.form = "list" /\ Len(info'.arg.items) # info.n_channels)
             => info'.err = "ValueError"
        /\ info'.err # "none" => info'.desc = info.desc
        /\ info'.n_channels = info.n_channels]_vars

\* A setter returned on a description that held one 'channel' element more
\* than the stream has channels: the element in excess was removed.
C37_Witness ==
  /\ info.op = "set"
  /\ info.err = "none"
  /\ info.had > info.n_channels
  /\ Len(info.desc.channel) = info.n_channels

====
